---- MODULE Spec2Model ----
(***************************************************************************)
(* Model of the clustering pipeline clusterize_texts (clustering.py) and   *)
(* of the part of handle_file (bot.py) that calls it and consumes what it  *)
(* returns.                                                                *)
(*                                                                         *)
(* One input row is represented by the class of its preprocessed text:     *)
(* 0 is a row whose preprocess_text() result is empty or has fewer than    *)
(* two tokens, k >= 1 is the k-th distinct valid preprocessed text.        *)
(*                                                                         *)
(* Further parts, each with a specification of its own: the event loop     *)
(* around handle_file, merge_similar_clusters, get_clustering_params,      *)
(* ClusteringMetrics.calculate, create_hierarchy, calculate_metrics,       *)
(* ClusteringCache, RateLimiter, the YandexGPT helpers, ProgressTracker,   *)
(* the category dialog and the temporary files of handle_file.             *)
(***************************************************************************)
EXTENDS Integers, Sequences, FiniteSets, TLC

\* ---------------------------------------------------------------- bounds
MaxRows == 4
MaxLabel == 1

\* clustering.py:565  at most this many valid rows: one trivial cluster.
ShortCircuitMax == 3

\* Distinct valid texts of the input files: enough to pass the short circuit
\* with every row distinct.
NumTexts == ShortCircuitMax + 1

NOISE == -1

\* ---------------------------------------------------------------- state
VARIABLES
  raw_texts,        \* the rows of the input file (class of preprocess_text(row))
  caller,           \* "handle_file" or "direct" (clusterize_texts called directly)
  loop_ctx,         \* asyncio loop seen by sync_log: "running", "idle", "none"
  has_callback,     \* progress_callback is not None
  yandex_configured,\* YANDEX_API_KEY and YANDEX_FOLDER_ID are both set
  pc,               \* stage of clusterize_texts
  trace,            \* stages entered so far, in order
  df,               \* indices (into raw_texts) of the rows the data frame holds
  topics,           \* cluster label of every row of df after fit_transform
  embedding_model,  \* name of the loaded SentenceTransformer, "" before loading
  params,           \* hyperparameters handed to UMAP / HDBSCAN
  quality_metrics,  \* result of ClusteringMetrics.calculate
  cluster_names,    \* cluster id -> name
  table,            \* rows of the written *_clustered.csv, <<>> if none written
  table_written,    \* to_csv has been executed
  result,           \* tuple returned by clusterize_texts, <<>> before return
  err,              \* exception that left clusterize_texts
  tasks,            \* log_progress tasks created on the running loop
  observer_raised,  \* some progress callback raised while the pipeline ran
  hf                \* position of handle_file

\* State of the event loop on which handle_file runs (bot.py, progress_tracker.py).
VARIABLES
  h_pc,             \* position of the handle_file coroutine
  now,              \* time.time(), in seconds
  last_update,      \* ProgressTracker.last_update
  current_percent,  \* ProgressTracker.current_percent
  sent,             \* percentages of the progress texts the user was sent, in order
  emitted,          \* number of sync_log calls the running pipeline has made
  run_length,       \* number of sync_log calls the run makes before it returns or raises
  loop_tasks,       \* log_progress tasks created and not yet started
  in_flight,        \* edit_text requests of started tasks awaiting their answer
  other,            \* an update of another user: "none", "queued", "handled"
  semaphore         \* free permits of PROCESSING_SEMAPHORE

\* merge_similar_clusters (clustering.py:390-476).
VARIABLES
  merge_topics,         \* topics: the cluster id of every text
  similarity_matrix,    \* cosine similarity (percent) of the centres of two clusters
  similarity_threshold, \* in percent
  merge_result          \* the returned pair <<topics, merge_map>>, <<>> before the call

\* get_clustering_params (cluster_params.py:20-145).
VARIABLES
  n_texts,          \* number of unique texts
  embedding_dim,    \* dimensionality of the embedding model
  adjusted_params   \* the returned ClusteringParams, <<>> before the call

\* ClusteringMetrics.calculate (metrics.py:20-87).
VARIABLES
  calc_embeddings,  \* embeddings: "finite" vectors, or vectors with a "nan" entry
  calc_labels,      \* labels: the cluster id of every embedding
  calc_metrics      \* the returned dict, <<>> before the call

\* create_hierarchy (hierarchical_clustering.py:17-92).
VARIABLES
  hier_topics,          \* topics: the cluster id of every text
  n_master_categories,  \* number of master categories asked for
  hier_result           \* the returned tuple, <<>> before the call

\* calculate_metrics (clustering.py:479-522).
VARIABLES
  stats_topics,  \* topics: the cluster id of every text
  stats_names,   \* cluster_names: cluster id -> name
  stats          \* the returned dict, <<>> before the call

\* ClusteringCache (cache_manager.py).
VARIABLES
  cache_files,    \* the *.pkl files written by save: key -> [mtime, written, data]
  cache_old,      \* number of *.pkl files left in cache_dir by earlier runs
  cache_now,      \* time.time(), in seconds
  cache_written,  \* number of files written so far (orders equal-second mtimes)
  cache_saves,    \* the save calls that returned: [key, data]
  cache_op        \* the last call of save or load and how it ended

\* RateLimiter (rate_limiter.py). Times are counted in half seconds.
VARIABLES
  max_requests,    \* self.max_requests
  window_seconds,  \* self.window_seconds
  requests,        \* self.requests: user_id -> list of timestamps
  rate_now,        \* time.time()
  rate_allowed,    \* the calls of is_allowed that returned allowed: [user_id, at]
  rate_op          \* the last call of is_allowed: arguments, state before, result

\* The YandexGPT helpers: generate_cluster_name_yandex (clustering.py) and
\* LLMClassifier._call_yandex_gpt (classification.py).
VARIABLES
  llm_helper,       \* "namer" or "classifier", "" when none is exercised
  llm_configured,   \* YANDEX_API_KEY and YANDEX_FOLDER_ID are set
  llm_max_retries,  \* the max_retries argument
  llm_attempt,      \* the loop variable attempt of the next iteration
  llm_outcomes,     \* what each requests.post of this call met, in order
  llm_result        \* how the call ended, "running" until then

\* ProgressTracker (progress_tracker.py).
VARIABLES
  tracker_now,              \* time.time()
  tracker_last_update,      \* self.last_update
  tracker_current_percent,  \* self.current_percent
  tracker_current_stage,    \* self.current_stage
  tracker_last_sent,        \* when edit_text last succeeded, NeverSent before that
  tracker_op                \* the last call of update: arguments, fields before, outcome

\* The category dialog: context.user_data of one user (bot.py) and the last
\* text message handled by handle_categories_input.
VARIABLES
  mode,                        \* user_data['mode'], "" when unset
  category_method,             \* user_data['category_method'], "" when unset
  awaiting_edited_categories,  \* user_data['awaiting_edited_categories'] is set
  categories,                  \* user_data['categories'], <<"unset">> when the key is absent
  dialog_prev,                 \* what the previous update of this user was and how it ended
  dialog_last                  \* the last update of this user and the reply to it

\* The temporary files of handle_file (bot.py:1508-2055).
VARIABLES
  fs_pc,           \* where handle_file is: "idle", "start", "downloaded", ..., "exit"
  fs_user_data,    \* user_data: mode, category_method, whether 'categories' is present
  fs_document,     \* the uploaded document, by what reading it gives
  fs_file_path,    \* the local file_path, "" for None
  fs_result_path,  \* the local result_path, "" for None
  fs_cache_key,    \* the local cache_key is not None
  fs_tmp,          \* the files that exist in /tmp and TEMP_DIR
  fs_exit          \* the path by which handle_file was left, "" before that

pipeline_vars == <<raw_texts, caller, loop_ctx, has_callback, yandex_configured, pc, trace,
          df, topics, embedding_model, params, quality_metrics, cluster_names,
          table, table_written, result, err, tasks, observer_raised, hf>>

loop_vars == <<h_pc, now, last_update, current_percent, sent, emitted, run_length,
               loop_tasks, in_flight, other, semaphore>>

merge_vars == <<merge_topics, similarity_matrix, similarity_threshold, merge_result>>

selector_vars == <<n_texts, embedding_dim, adjusted_params>>

metrics_vars == <<calc_embeddings, calc_labels, calc_metrics>>

hierarchy_vars == <<hier_topics, n_master_categories, hier_result>>

stats_vars == <<stats_topics, stats_names, stats>>

cache_vars == <<cache_files, cache_old, cache_now, cache_written, cache_saves, cache_op>>

rate_vars == <<max_requests, window_seconds, requests, rate_now, rate_allowed, rate_op>>

llm_vars == <<llm_helper, llm_configured, llm_max_retries, llm_attempt, llm_outcomes, llm_result>>

tracker_vars == <<tracker_now, tracker_last_update, tracker_current_percent, tracker_current_stage, tracker_last_sent, tracker_op>>

dialog_vars == <<mode, category_method, awaiting_edited_categories, categories, dialog_prev, dialog_last>>

files_vars == <<fs_pc, fs_user_data, fs_document, fs_file_path, fs_result_path, fs_cache_key, fs_tmp, fs_exit>>

vars == <<pipeline_vars, loop_vars, merge_vars, selector_vars, metrics_vars,
          hierarchy_vars, stats_vars, cache_vars, rate_vars, llm_vars,
          tracker_vars, dialog_vars, files_vars>>

\* The variables of the parts a specification does not exercise.
not_pipeline == <<loop_vars, merge_vars, selector_vars, metrics_vars,
                  hierarchy_vars, stats_vars, cache_vars, rate_vars,
                  llm_vars, tracker_vars, dialog_vars, files_vars>>
not_loop == <<merge_vars, selector_vars, metrics_vars,
              hierarchy_vars, stats_vars, cache_vars, rate_vars, llm_vars,
              tracker_vars, dialog_vars, files_vars>>
not_merge == <<pipeline_vars, loop_vars, selector_vars, metrics_vars,
               hierarchy_vars, stats_vars, cache_vars, rate_vars, llm_vars,
               tracker_vars, dialog_vars, files_vars>>
not_selector == <<pipeline_vars, loop_vars, merge_vars, metrics_vars,
                  hierarchy_vars, stats_vars, cache_vars, rate_vars,
                  llm_vars, tracker_vars, dialog_vars, files_vars>>
not_metrics == <<pipeline_vars, loop_vars, merge_vars, selector_vars,
                 hierarchy_vars, stats_vars, cache_vars, rate_vars, llm_vars,
                 tracker_vars, dialog_vars, files_vars>>
not_hierarchy == <<pipeline_vars, loop_vars, merge_vars, selector_vars,
                   metrics_vars, stats_vars, cache_vars, rate_vars, llm_vars,
                   tracker_vars, dialog_vars, files_vars>>
not_stats == <<pipeline_vars, loop_vars, merge_vars, selector_vars,
               metrics_vars, hierarchy_vars, cache_vars, rate_vars, llm_vars,
               tracker_vars, dialog_vars, files_vars>>
not_cache == <<pipeline_vars, loop_vars, merge_vars, selector_vars,
               metrics_vars, hierarchy_vars, stats_vars, rate_vars, llm_vars,
               tracker_vars, dialog_vars, files_vars>>
not_rate == <<pipeline_vars, loop_vars, merge_vars, selector_vars,
              metrics_vars, hierarchy_vars, stats_vars, cache_vars, llm_vars,
              tracker_vars, dialog_vars, files_vars>>
not_llm == <<pipeline_vars, loop_vars, merge_vars, selector_vars,
             metrics_vars, hierarchy_vars, stats_vars, cache_vars, rate_vars,
             tracker_vars, dialog_vars, files_vars>>
not_tracker == <<pipeline_vars, loop_vars, merge_vars, selector_vars,
                 metrics_vars, hierarchy_vars, stats_vars, cache_vars,
                 rate_vars, llm_vars, dialog_vars, files_vars>>
not_dialog == <<pipeline_vars, loop_vars, merge_vars, selector_vars,
                metrics_vars, hierarchy_vars, stats_vars, cache_vars,
                rate_vars, llm_vars, tracker_vars, files_vars>>
not_files == <<pipeline_vars, loop_vars, merge_vars, selector_vars,
               metrics_vars, hierarchy_vars, stats_vars, cache_vars,
               rate_vars, llm_vars, tracker_vars, dialog_vars>>

NoErr == [kind |-> "", stage |-> ""]

\* ---------------------------------------------------------------- helpers
RECURSIVE SeqMax(_)
SeqMax(s) == IF s = <<>> THEN 0
             ELSE LET m == SeqMax(SubSeq(s, 1, Len(s) - 1))
                  IN IF s[Len(s)] > m THEN s[Len(s)] ELSE m

\* Distinct valid texts are numbered in order of first appearance.
FirstAppearanceOrder(s) ==
  \A i \in 1..Len(s) : s[i] <= SeqMax(SubSeq(s, 1, i - 1)) + 1

InputFiles ==
  { s \in UNION { [1..n -> 0..NumTexts] : n \in 0..MaxRows } : FirstAppearanceOrder(s) }

Range(s) == { s[i] : i \in 1..Len(s) }

\* Increasing sequence of the elements of a finite set of integers.
RECURSIVE SortedSeq(_)
SortedSeq(S) == IF S = {} THEN <<>>
                ELSE LET m == CHOOSE x \in S : \A y \in S : x <= y
                     IN <<m>> \o SortedSeq(S \ {m})

\* clustering.py:562-563
valid_indices(texts) == SortedSeq({ i \in 1..Len(texts) : texts[i] # 0 })

\* clustering.py:578  drop_duplicates(subset='_preprocessed', keep="first")
drop_duplicates(texts, idx) ==
  SortedSeq({ idx[k] : k \in { k \in 1..Len(idx) :
                 \A j \in 1..(k - 1) : texts[idx[j]] # texts[idx[k]] } })


Count(s, c) == Cardinality({ i \in 1..Len(s) : s[i] = c })

\* ---------------------------------------------------------------- progress
\* clustering.py:530-536  log_progress: the callback runs inside try/except.
log_progress(out) ==
  IF has_callback
  THEN IF out = "raise" THEN "swallowed" ELSE "delivered"
  ELSE "printed"

\* The same call with the try/except around the callback, and the one around
\* sync_log's body, left out.
sync_log_unguarded(out) ==
  IF loop_ctx = "none" THEN "raise"
  ELSE IF loop_ctx = "running" THEN "task"
  ELSE IF has_callback /\ out = "raise" THEN "raise" ELSE log_progress(out)

\* clustering.py:538-546  sync_log: what one call does with the message.
\*   "task"      the loop is running: create_task(log_progress(msg))
\*   "printed"   no usable loop (get_event_loop raised) or no callback
\*   "delivered" / "swallowed": run_until_complete(log_progress(msg))
\*   "raise"     an exception leaves sync_log
sync_log(out) ==
  IF loop_ctx = "none" THEN "printed"
  ELSE IF loop_ctx = "running" THEN "task"
  ELSE log_progress(out)

Outcomes == {"ok", "raise"}

\* What the callback does on each of the k sync_log calls of a stage.  The
\* callback is invoked by the call itself only when the loop is idle
\* (run_until_complete); on a running loop it is invoked later, by the task.
CallbackOutcomes(k) ==
  IF loop_ctx = "idle" /\ has_callback
  THEN [1..k -> Outcomes]
  ELSE {[i \in 1..k |-> "ok"]}

RECURSIVE Queued(_, _)
Queued(msgs, outs) ==
  IF msgs = <<>> THEN <<>>
  ELSE (IF sync_log(outs[1]) = "task" THEN <<msgs[1]>> ELSE <<>>)
       \o Queued(Tail(msgs), Tail(outs))

\* The sync_log calls of one stage: msgs are the messages, outs what the
\* callback does on each.
Escaped(outs)   == \E i \in 1..Len(outs) : sync_log(outs[i]) = "raise"
Swallowed(outs) == \E i \in 1..Len(outs) : sync_log(outs[i]) = "swallowed"

Logged(msgs, outs) ==
  /\ tasks' = tasks \o Queued(msgs, outs)
  /\ observer_raised' = (observer_raised \/ Swallowed(outs))

\* An exception of the given kind leaves clusterize_texts at the given stage.
Raise(kind, stage) ==
  /\ pc' = "ERROR"
  /\ trace' = Append(trace, "ERROR")
  /\ err' = [kind |-> kind, stage |-> stage]

Enter(stage) ==
  /\ pc' = stage
  /\ trace' = Append(trace, stage)
  /\ err' = err

OutPath == "_clustered.csv"


\* ---------------------------------------------------------------- parts at rest
\* bot.py:45  PROCESSING_SEMAPHORE = asyncio.Semaphore(2)
SemaphorePermits == 2

\* progress_tracker.py:16, bot.py:1699  min_interval=3.0
min_interval == 3

\* No update has reached handle_file.
LoopIdle ==
  /\ h_pc = "none"
  /\ now = min_interval
  /\ last_update = 0
  /\ current_percent = 0
  /\ sent = <<>>
  /\ emitted = 0
  /\ run_length = 0
  /\ loop_tasks = <<>>
  /\ in_flight = <<>>
  /\ other = "none"
  /\ semaphore = SemaphorePermits

\* merge_similar_clusters has not been called.
MergeIdle ==
  /\ merge_topics = <<>>
  /\ similarity_matrix = <<>>
  /\ similarity_threshold = 0
  /\ merge_result = <<>>

\* get_clustering_params has not been called.
SelectorIdle ==
  /\ n_texts = 0
  /\ embedding_dim = 0
  /\ adjusted_params = <<>>

\* ClusteringMetrics.calculate has not been called.
MetricsIdle ==
  /\ calc_embeddings = "none"
  /\ calc_labels = <<>>
  /\ calc_metrics = <<>>

\* create_hierarchy has not been called.
HierarchyIdle ==
  /\ hier_topics = <<>>
  /\ n_master_categories = 0
  /\ hier_result = <<>>

\* calculate_metrics has not been called.
StatsIdle ==
  /\ stats_topics = <<>>
  /\ stats_names = <<>>
  /\ stats = <<>>

\* No call of the cache has been made and the directory is empty.
CacheIdle ==
  /\ cache_files = <<>>
  /\ cache_old = 0
  /\ cache_now = 0
  /\ cache_written = 0
  /\ cache_saves = {}
  /\ cache_op = [op |-> "none"]

\* No RateLimiter is exercised.
RateIdle ==
  /\ max_requests = 0
  /\ window_seconds = 0
  /\ requests = <<>>
  /\ rate_now = 0
  /\ rate_allowed = <<>>
  /\ rate_op = [op |-> "none"]

\* No YandexGPT helper is exercised.
LlmIdle ==
  /\ llm_helper = ""
  /\ llm_configured = FALSE
  /\ llm_max_retries = 0
  /\ llm_attempt = 0
  /\ llm_outcomes = <<>>
  /\ llm_result = "running"

\* No ProgressTracker is exercised.
TrackerIdle ==
  /\ tracker_now = 0
  /\ tracker_last_update = 0
  /\ tracker_current_percent = 0
  /\ tracker_current_stage = ""
  /\ tracker_last_sent = 0
  /\ tracker_op = [op |-> "none"]

\* No dialog is exercised.
DialogIdle ==
  /\ mode = ""
  /\ category_method = ""
  /\ awaiting_edited_categories = FALSE
  /\ categories = <<"unset">>
  /\ dialog_prev = "none"
  /\ dialog_last = [update |-> "none"]

\* handle_file is not running and has left no file.
FilesIdle ==
  /\ fs_pc = "idle"
  /\ fs_user_data = <<>>
  /\ fs_document = ""
  /\ fs_file_path = ""
  /\ fs_result_path = ""
  /\ fs_cache_key = FALSE
  /\ fs_tmp = {}
  /\ fs_exit = ""

\* clusterize_texts is not exercised step by step: only who calls it, the
\* loop it finds and whether it is given a callback are fixed.
PipelineAtRest(c, l, cb) ==
  /\ raw_texts = <<>>
  /\ caller = c
  /\ loop_ctx = l
  /\ has_callback = cb
  /\ yandex_configured = FALSE
  /\ pc = "idle"
  /\ trace = <<>>
  /\ df = <<>>
  /\ topics = <<>>
  /\ embedding_model = ""
  /\ params = <<>>
  /\ quality_metrics = <<>>
  /\ cluster_names = <<>>
  /\ table = <<>>
  /\ table_written = FALSE
  /\ result = <<>>
  /\ err = NoErr
  /\ tasks = <<>>
  /\ observer_raised = FALSE
  /\ hf = "none"

PipelineIdle == PipelineAtRest("none", "none", FALSE)

\* ---------------------------------------------------------------- Init
\* handle_file is a coroutine, so it calls clusterize_texts on the running
\* loop and always passes its callback (bot.py:1865-1868).  A direct caller
\* has an idle loop or none, and may pass no callback.
Init ==
  /\ raw_texts \in InputFiles
  /\ caller \in {"handle_file", "direct"}
  /\ loop_ctx \in (IF caller = "handle_file" THEN {"running"} ELSE {"idle", "none"})
  /\ has_callback \in (IF loop_ctx = "idle" THEN BOOLEAN ELSE {TRUE})
  /\ yandex_configured \in BOOLEAN
  /\ pc = IF caller = "handle_file" THEN "idle" ELSE "LOADING"
  /\ trace = IF caller = "handle_file" THEN <<>> ELSE <<"LOADING">>
  /\ hf = IF caller = "handle_file" THEN "analysing" ELSE "none"
  /\ df = <<>>
  /\ topics = <<>>
  /\ embedding_model = ""
  /\ params = <<>>
  /\ quality_metrics = <<>>
  /\ cluster_names = <<>>
  /\ table = <<>>
  /\ table_written = FALSE
  /\ result = <<>>
  /\ err = NoErr
  /\ tasks = <<>>
  /\ observer_raised = FALSE
  /\ LoopIdle
  /\ MergeIdle
  /\ SelectorIdle
  /\ MetricsIdle
  /\ HierarchyIdle
  /\ StatsIdle
  /\ CacheIdle
  /\ RateIdle
  /\ LlmIdle
  /\ TrackerIdle
  /\ DialogIdle
  /\ FilesIdle

\* ---------------------------------------------------------------- pipeline
\* The check of the row count left out.
file_is_empty_unchecked(texts) == FALSE

\* clustering.py:552-554  n == 0
file_is_empty(texts) == Len(texts) = 0

\* clustering.py:548-556  read the file; an empty file raises ValueError.
Load ==
  /\ pc = "LOADING"
  /\ \E outs \in CallbackOutcomes(2) :
       /\ Logged(IF file_is_empty(raw_texts) THEN <<"load">> ELSE <<"load", "loaded">>,
                 IF file_is_empty(raw_texts) THEN <<outs[1]>> ELSE outs)
       /\ IF Escaped(outs) THEN Raise("ObserverError", "LOADING")
          ELSE IF file_is_empty(raw_texts) THEN Raise("ValueError", "LOADING")
          ELSE Enter("NORMALIZING")
  /\ UNCHANGED not_pipeline
  /\ UNCHANGED <<raw_texts, caller, loop_ctx, has_callback, yandex_configured, df,
                 topics, embedding_model, params, quality_metrics, cluster_names,
                 table, table_written, result, hf>>

\* clustering.py:565-570  the table and statistics of the short circuit.
trivial_table(texts) ==
  [i \in 1..Len(texts) |->
     [src |-> i, cluster_id |-> 0,
      cluster_name |-> [kind |-> "all_texts", id |-> 0, form |-> "raw"]]]

\* total_texts counting the valid rows only.
trivial_stats_valid_only(texts) ==
  [n_clusters |-> 1, total_texts |-> Len(valid_indices(texts))]

\* clustering.py:570
trivial_stats(texts) == [n_clusters |-> 1, total_texts |-> Len(texts)]

\* The short circuit decided on the number of rows left after dropping the
\* duplicates instead of on the number of valid rows.
short_circuit_after_dedup(texts) ==
  Len(drop_duplicates(texts, valid_indices(texts))) <= ShortCircuitMax

\* clustering.py:565
short_circuit(texts) == Len(valid_indices(texts)) <= ShortCircuitMax

\* clustering.py:558-573  preprocess, keep the valid rows, short circuit.
Normalize ==
  /\ pc = "NORMALIZING"
  /\ \E outs \in CallbackOutcomes(1) :
       /\ Logged(<<"preprocess">>, outs)
       /\ IF Escaped(outs)
          THEN /\ Raise("ObserverError", "NORMALIZING")
               /\ UNCHANGED <<df, table, table_written, result>>
          ELSE IF short_circuit(raw_texts)
          THEN /\ Enter("DONE")
               /\ df' = [i \in 1..Len(raw_texts) |-> i]
               /\ table' = trivial_table(raw_texts)
               /\ table_written' = TRUE
               /\ result' = <<OutPath, trivial_stats(raw_texts)>>
          ELSE /\ Enter("DEDUPING")
               /\ df' = valid_indices(raw_texts)
               /\ UNCHANGED <<table, table_written, result>>
  /\ UNCHANGED not_pipeline
  /\ UNCHANGED <<raw_texts, caller, loop_ctx, has_callback, yandex_configured,
                 topics, embedding_model, params, quality_metrics, cluster_names, hf>>

\* clustering.py:575-679  drop duplicates (keep first), set up the vectorizer.
Dedup ==
  /\ pc = "DEDUPING"
  /\ \E outs \in CallbackOutcomes(3) :
       /\ Logged(<<"dedup", "unique", "vectorizer">>, outs)
       /\ IF Escaped(outs)
          THEN Raise("ObserverError", "DEDUPING") /\ UNCHANGED df
          ELSE Enter("EMBEDDING") /\ df' = drop_duplicates(raw_texts, df)
  /\ UNCHANGED not_pipeline
  /\ UNCHANGED <<raw_texts, caller, loop_ctx, has_callback, yandex_configured,
                 topics, embedding_model, params, quality_metrics, cluster_names,
                 table, table_written, result, hf>>

\* clustering.py:681-683  the embedding model is constructed by name; an
\* exception of the constructor is not caught.
LoadModel ==
  /\ pc = "EMBEDDING"
  /\ \E outs \in CallbackOutcomes(1), loaded \in BOOLEAN :
       /\ Logged(<<"model">>, outs)
       /\ IF Escaped(outs)
          THEN Raise("ObserverError", "EMBEDDING") /\ UNCHANGED embedding_model
          ELSE IF loaded
          THEN /\ Enter("PARAM_SELECTION")
               /\ embedding_model' = "paraphrase-multilingual-MiniLM-L12-v2"
          ELSE Raise("OSError", "EMBEDDING") /\ UNCHANGED embedding_model
  /\ UNCHANGED not_pipeline
  /\ UNCHANGED <<raw_texts, caller, loop_ctx, has_callback, yandex_configured, df,
                 topics, params, quality_metrics, cluster_names,
                 table, table_written, result, hf>>


Max(a, b) == IF a >= b THEN a ELSE b
Min(a, b) == IF a <= b THEN a ELSE b

\* clustering.py:685-707  hyperparameters chosen inline from n_unique.
inline_params(n_unique) ==
  IF n_unique < 500
  THEN [min_cluster_size |-> 5, min_samples |-> 2, n_neighbors |-> 10,
        n_components |-> 10]
  ELSE IF n_unique < 5000
  THEN [min_cluster_size |-> Max(12, (n_unique * 15) \div 1000),
        min_samples |-> 2,
        n_neighbors |-> Min(35, Max(25, n_unique \div 25)),
        n_components |-> 10]
  ELSE LET mcs == Max(50, (n_unique * 2) \div 1000)
       IN [min_cluster_size |-> mcs,
           min_samples |-> Max(10, (mcs * 2) \div 10),
           n_neighbors |-> Min(50, Max(30, n_unique \div 200)),
           n_components |-> 10]

\* clustering.py:685-739  choose the hyperparameters, build UMAP/HDBSCAN/BERTopic.
SelectParams ==
  /\ pc = "PARAM_SELECTION"
  /\ Enter("REDUCING")
  /\ params' = inline_params(Len(df))
  /\ UNCHANGED not_pipeline
  /\ UNCHANGED <<raw_texts, caller, loop_ctx, has_callback, yandex_configured, df,
                 topics, embedding_model, quality_metrics, cluster_names,
                 table, table_written, result, tasks, observer_raised, hf>>

\* Exceptions the numerical libraries raise inside fit_transform.
FitErrors == {"ValueError", "RuntimeError"}

\* clustering.py:764-766  except Exception as e: sync_log(...); raise
reraise(kind) == kind

\* clustering.py:760-766  fit_transform, first part: embed the texts and
\* reduce the vectors.  A failure is logged and raised again.
Reduce ==
  /\ pc = "REDUCING"
  /\ \E outs \in CallbackOutcomes(2), fit \in {"ok"} \cup FitErrors :
       IF fit = "ok"
       THEN /\ Logged(<<"cluster">>, <<outs[1]>>)
            /\ IF Escaped(<<outs[1]>>) THEN Raise("ObserverError", "REDUCING")
               ELSE Enter("CLUSTERING")
       ELSE /\ Logged(<<"cluster", "error">>, outs)
            /\ IF Escaped(outs) THEN Raise("ObserverError", "REDUCING")
               ELSE Raise(reraise(fit), "REDUCING")
  /\ UNCHANGED not_pipeline
  /\ UNCHANGED <<raw_texts, caller, loop_ctx, has_callback, yandex_configured, df,
                 topics, embedding_model, params, quality_metrics, cluster_names,
                 table, table_written, result, hf>>

\* Label arrays the density clusterer returns for k documents: the first
\* `noise` documents are left unassigned, the others are spread over m
\* topics 0..m-1, topic 0 being the largest (BERTopic numbers the topics by
\* decreasing size).
Labelings(k) ==
  { [i \in 1..k |-> IF i <= noise THEN NOISE ELSE (i - noise - 1) % m] :
      noise \in 0..k, m \in 1..(MaxLabel + 1) }

\* The clusterer's step with the quality metrics moved behind the naming
\* and the master categories: naming follows the clustering directly.
Cluster_scoring_last ==
  /\ pc = "CLUSTERING"
  /\ \E labels \in Labelings(Len(df)) :
       /\ topics' = labels
       /\ Enter("NAMING")
  /\ UNCHANGED not_pipeline
  /\ UNCHANGED <<raw_texts, caller, loop_ctx, has_callback, yandex_configured, df,
                 embedding_model, params, quality_metrics, cluster_names,
                 table, table_written, result, tasks, observer_raised, hf>>

\* clustering.py:762-766  fit_transform, second part: the density clusterer
\* labels the documents, or raises; its exception is logged and raised again.
Cluster ==
  /\ pc = "CLUSTERING"
  /\ \/ \E labels \in Labelings(Len(df)) :
          /\ topics' = labels
          /\ Enter("SCORING")
          /\ UNCHANGED <<tasks, observer_raised>>
     \/ \E outs \in CallbackOutcomes(1), kind \in FitErrors :
          /\ Logged(<<"error">>, outs)
          /\ IF Escaped(outs) THEN Raise("ObserverError", "CLUSTERING")
             ELSE Raise(reraise(kind), "CLUSTERING")
          /\ UNCHANGED topics
  /\ UNCHANGED not_pipeline
  /\ UNCHANGED <<raw_texts, caller, loop_ctx, has_callback, yandex_configured, df,
                 embedding_model, params, quality_metrics, cluster_names,
                 table, table_written, result, hf>>

Clusters(labels) == Range(labels) \ {NOISE}

\* round(100 * a / b, 2) in hundredths of a percent.
Percent2(a, b) == (2 * 10000 * a + b) \div (2 * b)

\* metrics.py:58-64  the three sklearn scores accept 2 to n_samples - 1
\* distinct labels among the samples that are not noise.
shape_metrics_defined(labels) ==
  /\ Cardinality(Clusters(labels)) >= 2
  /\ Cardinality(Clusters(labels)) <= Len(labels) - Count(labels, NOISE) - 1

\* The function without the check of the number of labels and without the
\* try/except: an exception of the sklearn scores leaves it.
calculate_unguarded(labels, shape_ok) ==
  IF Cardinality(Clusters(labels)) >= 2 /\ shape_ok
  THEN [silhouette_score |-> "value", davies_bouldin_index |-> "value",
        calinski_harabasz_score |-> "value",
        noise_ratio |-> Percent2(Count(labels, NOISE), Len(labels))]
  ELSE [raised |-> "ValueError"]

\* metrics.py:20-87  ClusteringMetrics.calculate; shape_ok is FALSE when one
\* of the three sklearn scores raises.
calculate(labels, shape_ok) ==
  LET noise_ratio == IF Len(labels) > 0
                     THEN Percent2(Count(labels, NOISE), Len(labels)) ELSE 0
  IN IF Cardinality(Clusters(labels)) < 2
     THEN [silhouette_score |-> "0.0", davies_bouldin_index |-> "0.0",
           calinski_harabasz_score |-> "0.0", noise_ratio |-> noise_ratio]
     ELSE IF shape_ok
     THEN [silhouette_score |-> "value", davies_bouldin_index |-> "value",
           calinski_harabasz_score |-> "value", noise_ratio |-> noise_ratio]
     ELSE [silhouette_score |-> "0.0", davies_bouldin_index |-> "0.0",
           calinski_harabasz_score |-> "0.0", noise_ratio |-> 0]

\* clustering.py:768-793  quality metrics of the labels.
Score ==
  /\ pc = "SCORING"
  /\ \E outs \in CallbackOutcomes(2), finite \in BOOLEAN :
       /\ Logged(<<"metrics", "metrics_done">>, outs)
       /\ IF Escaped(outs)
          THEN Raise("ObserverError", "SCORING") /\ UNCHANGED quality_metrics
          ELSE /\ Enter("NAMING")
               /\ quality_metrics' =
                    calculate(topics, finite /\ shape_metrics_defined(topics))
  /\ UNCHANGED not_pipeline
  /\ UNCHANGED <<raw_texts, caller, loop_ctx, has_callback, yandex_configured, df,
                 topics, embedding_model, params, cluster_names,
                 table, table_written, result, hf>>


\* ---------------------------------------------------------------- naming
\* A name is represented by where it comes from and the cluster it is for.
Name(kind, id) == [kind |-> kind, id |-> id, form |-> "raw"]

\* What topic_model.get_topic(c) holds: nothing, only words the filter
\* rejects, or words that survive filter_topic_words.
TopicWords == {"none", "junk", "good"}

\* How the text-generation service behaves during the naming loop: it
\* answers every request, fails every request, or fails the first request
\* (the one for topic 0) and answers the others.
LLMBehaviours == {"up", "down", "first_fails"}

llm_reply(behaviour, c) ==
  IF behaviour = "up" \/ (behaviour = "first_fails" /\ c # 0) THEN "name" ELSE "fail"

\* What generate_cluster_name_yandex returns: a name, or None (not
\* configured, error status, timeout, exception; clustering.py:104-205).
generate_cluster_name_yandex(reply) ==
  IF ~yandex_configured THEN "None"
  ELSE IF reply = "name" THEN "name" ELSE "None"

\* clustering.py:814-843  the name of one cluster.
cluster_name(c, words, reply) ==
  IF c = NOISE THEN Name("noise", NOISE)
  ELSE IF words = "none" THEN Name("default", c)
  ELSE IF yandex_configured /\ generate_cluster_name_yandex(reply) # "None"
  THEN Name("llm", c)
  ELSE IF words = "good" THEN Name("keywords", c)
  ELSE Name("default", c)

\* clustering.py:795-843  name every cluster of topics.
NameClusters ==
  /\ pc = "NAMING"
  /\ \E outs \in CallbackOutcomes(1),
        words \in TopicWords, behaviour \in LLMBehaviours :
       /\ Logged(<<"names">>, outs)
       /\ IF Escaped(outs)
          THEN Raise("ObserverError", "NAMING") /\ UNCHANGED cluster_names
          ELSE /\ Enter("HIERARCHY")
               /\ cluster_names' =
                    [c \in Range(topics) |-> cluster_name(c, words, llm_reply(behaviour, c))]
  /\ UNCHANGED not_pipeline
  /\ UNCHANGED <<raw_texts, caller, loop_ctx, has_callback, yandex_configured, df,
                 topics, embedding_model, params, quality_metrics,
                 table, table_written, result, hf>>

\* clustering.py:853-878  normalize_cluster_name, then capitalize.
normalize_cluster_name(name) == [name EXCEPT !.form = "normalized"]

\* ---------------------------------------------------------------- statistics
FirstIndex(labels, c) ==
  CHOOSE i \in 1..Len(labels) : labels[i] = c /\ \A j \in 1..(i - 1) : labels[j] # c

\* Position of c when the clusters are sorted by size, largest first; sorted()
\* is stable and Counter keeps the order of first appearance.
Rank(labels, c) ==
  Cardinality({ d \in Clusters(labels) :
     \/ Count(labels, d) > Count(labels, c)
     \/ Count(labels, d) = Count(labels, c) /\ FirstIndex(labels, d) < FirstIndex(labels, c) })

\* The clusters in Counter order (first appearance), without the sort.
unsorted_clusters(labels) ==
  [k \in 1..Cardinality(Clusters(labels)) |->
     CHOOSE c \in Clusters(labels) :
       Cardinality({ d \in Clusters(labels) :
                       FirstIndex(labels, d) < FirstIndex(labels, c) }) = k - 1]

\* clustering.py:492-496
sorted_clusters(labels) ==
  [k \in 1..Cardinality(Clusters(labels)) |->
     CHOOSE c \in Clusters(labels) : Rank(labels, c) = k - 1]

\* clustering.py:498-513
RECURSIVE top_clusters(_, _, _, _, _)
top_clusters(order, labels, names, seen_names, acc) ==
  IF order = <<>> \/ Len(acc) >= 3 THEN acc
  ELSE LET c == Head(order)
           name == IF c \in DOMAIN names THEN names[c] ELSE Name("Cluster", c)
       IN IF name \in seen_names
          THEN top_clusters(Tail(order), labels, names, seen_names, acc)
          ELSE top_clusters(Tail(order), labels, names, seen_names \cup {name},
                 Append(acc, [id |-> c, name |-> name, size |-> Count(labels, c)]))

\* round(a / b, 2) in hundredths.
Ratio2(a, b) == (2 * 100 * a + b) \div (2 * b)

\* clustering.py:479-522
calculate_metrics(labels, names) ==
  LET n_clusters == Cardinality(Clusters(labels))
      members == Cardinality({ i \in 1..Len(labels) : labels[i] # NOISE })
  IN [n_clusters |-> n_clusters,
      noise_percent |-> IF Len(labels) > 0
                        THEN Percent2(Count(labels, NOISE), Len(labels)) ELSE 0,
      avg_cluster_size |-> IF n_clusters > 0 THEN Ratio2(members, n_clusters) ELSE 0,
      total_texts |-> Len(labels),
      top_clusters |-> top_clusters(sorted_clusters(labels), labels, names, {}, <<>>),
      cluster_distribution |-> [c \in Range(labels) |-> Count(labels, c)]]

\* ---------------------------------------------------------------- master categories
\* What the request of generate_master_categories_yandex leads to:
\*   "json_all"   a JSON object whose lists hold every cluster name
\*   "json_none"  a JSON object whose lists hold none of the names as written
\*   "not_json"   text json.loads rejects: {"Prochee": cluster_names}
\*   "KeyError"   an error reply without "result"; the only reply to a
\*                request without credentials (a failing requests.post
\*                leaves the function the same way, uncaught)
MasterReplies ==
  IF yandex_configured
  THEN {"json_all", "json_none", "not_json", "KeyError"}
  ELSE {"KeyError"}

\* clustering.py:881-928  only json.JSONDecodeError is caught.
generate_master_categories_yandex(reply) ==
  IF reply = "json_all" THEN "llm_categories"
  ELSE IF reply = "json_none" THEN "llm_other_names"
  ELSE IF reply = "not_json" THEN "fallback"
  ELSE "raise"

\* clustering.py:936-940  "Prochee" stands for the default category.
map_to_master(name, auto_categories) ==
  IF auto_categories = "llm_categories" THEN [kind |-> "category", of |-> name]
  ELSE [kind |-> "Prochee", of |-> name]

\* clustering.py:845-847, 877-878, 942  the rows of the output table.
output_table(rows, labels, names, auto_categories) ==
  [i \in 1..Len(rows) |->
     [src |-> rows[i],
      cluster_id |-> labels[i],
      cluster_name |-> normalize_cluster_name(names[labels[i]]),
      master_category |->
        map_to_master(normalize_cluster_name(names[labels[i]]), auto_categories)]]

\* clustering.py:845-972  fill the table, build the master categories,
\* compute the statistics, write the table, return (out, stats).
Hierarchy ==
  /\ pc = "HIERARCHY"
  /\ \E outs \in CallbackOutcomes(2), reply \in MasterReplies :
       LET auto_categories == generate_master_categories_yandex(reply)
       IN IF auto_categories = "raise"
          THEN /\ Raise(reply, "HIERARCHY")
               /\ UNCHANGED <<table, table_written, result, tasks, observer_raised>>
          ELSE /\ Logged(<<"done", "done">>, outs)
               /\ IF Escaped(outs)
                  THEN /\ Raise("ObserverError", "HIERARCHY")
                       /\ UNCHANGED <<table, table_written, result>>
                  ELSE /\ Enter("DONE")
                       /\ table' = output_table(df, topics, cluster_names, auto_categories)
                       /\ table_written' = TRUE
                       /\ result' = <<OutPath,
                            calculate_metrics(topics, cluster_names)
                              @@ [quality_metrics |-> quality_metrics]>>
  /\ UNCHANGED not_pipeline
  /\ UNCHANGED <<raw_texts, caller, loop_ctx, has_callback, yandex_configured, df,
                 topics, embedding_model, params, quality_metrics, cluster_names, hf>>


\* ---------------------------------------------------------------- handle_file
\* bot.py:1718-1744, 1831-1868  read the file, reject an empty one, otherwise
\* call clusterize_texts (synchronously, on the running loop).
HFAnalyse ==
  /\ hf = "analysing"
  /\ IF Len(raw_texts) = 0
     THEN hf' = "empty_file" /\ UNCHANGED <<pc, trace>>
     ELSE hf' = "pipeline" /\ pc' = "LOADING" /\ trace' = <<"LOADING">>
  /\ UNCHANGED not_pipeline
  /\ UNCHANGED <<raw_texts, caller, loop_ctx, has_callback, yandex_configured, df,
                 topics, embedding_model, params, quality_metrics, cluster_names,
                 table, table_written, result, err, tasks, observer_raised>>

\* Keys of stats that handle_file and format_statistics read with stats[...]
\* (bot.py:1879-1881, 2278-2281).
StatsKeysRead == {"total_texts", "n_clusters", "noise_percent", "avg_cluster_size"}

\* bot.py:1865-1993  what handle_file does with the returned tuple: the
\* assignment has four targets; then the statistics are read and the result
\* document is sent.
consume_result(returned) ==
  IF Len(returned) # 4 THEN "validation_error"          \* ValueError (unpack)
  ELSE IF ~(StatsKeysRead \subseteq DOMAIN returned[2]) THEN "critical_error"
  ELSE "sent"

\* bot.py:1865-1993, 1997-2005
HFReturn ==
  /\ hf = "pipeline"
  /\ pc = "DONE"
  /\ hf' = consume_result(result)
  /\ UNCHANGED not_pipeline
  /\ UNCHANGED <<raw_texts, caller, loop_ctx, has_callback, yandex_configured, pc,
                 trace, df, topics, embedding_model, params, quality_metrics,
                 cluster_names, table, table_written, result, err, tasks,
                 observer_raised>>

\* Exception classes caught by "except ValueError".
ValueErrors == {"ValueError"}

\* bot.py:1997-2049  the except branch an exception of the pipeline reaches.
except_branch(kind) ==
  IF kind \in ValueErrors THEN "validation_error" ELSE "critical_error"

HFExcept ==
  /\ hf = "pipeline"
  /\ pc = "ERROR"
  /\ hf' = except_branch(err.kind)
  /\ UNCHANGED not_pipeline
  /\ UNCHANGED <<raw_texts, caller, loop_ctx, has_callback, yandex_configured, pc,
                 trace, df, topics, embedding_model, params, quality_metrics,
                 cluster_names, table, table_written, result, err, tasks,
                 observer_raised>>

\* ---------------------------------------------------------------- event loop
\* handle_file as a coroutine on the bot's event loop: its own progress
\* updates, the synchronous call of clusterize_texts, the log_progress tasks
\* that sync_log creates, and an update of another user waiting for the loop.

MaxClock == 6

\* The sync_log calls of a complete run, in order (clustering.py:549-966).
SyncLogCalls ==
  <<"load", "loaded", "preprocess", "dedup", "unique", "vectorizer", "model",
    "cluster", "metrics", "metrics_done", "names", "done", "done">>

\* How a run called by handle_file ends, by the number of sync_log calls it
\* has made: the short circuit returns after "preprocess"; the model
\* constructor raises after "model"; fit_transform raises after "cluster" and
\* the except branch logs "error"; the master-category request raises after
\* "names"; a complete run returns after the second "done".
RunEnds ==
  [calls : {3}, kind : {"return"}] \cup [calls : {7}, kind : {"OSError"}]
    \cup [calls : {9}, kind : FitErrors] \cup [calls : {11}, kind : {"KeyError"}]
    \cup [calls : {Len(SyncLogCalls)}, kind : {"return"}]

RunLengths == { e.calls : e \in RunEnds }

sync_log_message(length, i) ==
  IF length = 9 /\ i = 9 THEN "error" ELSE SyncLogCalls[i]

\* bot.py:1845-1862  clustering_progress_callback: the percentage it passes
\* to tracker.update for a message, 0 when no branch matches the message.
clustering_progress_callback(msg) ==
  IF msg = "preprocess" THEN 25
  ELSE IF msg = "model" THEN 35
  ELSE IF msg = "cluster" THEN 50
  ELSE IF msg = "names" THEN 75
  ELSE 0

\* The clamp to 0..100 alone, without the rule for an unfinished run.
shown_percent_unreserved(percent, force) ==
  IF percent < 0 THEN 0 ELSE IF percent > 100 THEN 100 ELSE percent

\* progress_tracker.py:39-47  the percentage update() shows.
shown_percent(percent, force) ==
  LET clamped == IF percent < 0 THEN 0 ELSE IF percent > 100 THEN 100 ELSE percent
  IN IF clamped = 100 /\ ~force THEN 99 ELSE clamped

\* progress_tracker.py:52
should_update(force) == force \/ (now - last_update) >= min_interval

\* progress_tracker.py:29-64  ProgressTracker.update awaited by handle_file:
\* edit_ok is FALSE when edit_text raises (the exception is swallowed).
tracker_update(percent, force, edit_ok) ==
  IF should_update(force) /\ edit_ok
  THEN /\ sent' = Append(sent, shown_percent(percent, force))
       /\ last_update' = now
       /\ current_percent' = shown_percent(percent, force)
  ELSE UNCHANGED <<sent, last_update, current_percent>>

InitLoop ==
  /\ PipelineAtRest("handle_file", "running", TRUE)
  /\ LoopIdle
  /\ MergeIdle
  /\ SelectorIdle
  /\ MetricsIdle
  /\ HierarchyIdle
  /\ StatsIdle
  /\ CacheIdle
  /\ RateIdle
  /\ LlmIdle
  /\ TrackerIdle
  /\ DialogIdle
  /\ FilesIdle

\* The loop thread is free: handle_file is suspended at an await or has
\* returned.  clusterize_texts is called without await or executor
\* (bot.py:1865), so the thread is held for the whole call.
LoopFree == h_pc # "pipeline"

Tick ==
  /\ now < MaxClock
  /\ now' = now + 1
  /\ UNCHANGED <<h_pc, last_update, current_percent, sent, emitted, run_length,
                 loop_tasks, in_flight, other, semaphore>>
  /\ UNCHANGED pipeline_vars
  /\ UNCHANGED not_loop

\* bot.py:1692-1706  the progress message is sent, the tracker created and
\* the first update forced.
HFStart ==
  /\ h_pc = "none"
  /\ \E edit_ok \in BOOLEAN : tracker_update(5, TRUE, edit_ok)
  /\ h_pc' = "download"
  /\ UNCHANGED <<now, emitted, run_length, loop_tasks, in_flight, other, semaphore>>
  /\ UNCHANGED pipeline_vars
  /\ UNCHANGED not_loop

\* bot.py:1708-1716  the file is downloaded.
HFDownloaded ==
  /\ h_pc = "download"
  /\ \E edit_ok \in BOOLEAN : tracker_update(10, FALSE, edit_ok)
  /\ h_pc' = "read_csv"
  /\ UNCHANGED <<now, emitted, run_length, loop_tasks, in_flight, other, semaphore>>
  /\ UNCHANGED pipeline_vars
  /\ UNCHANGED not_loop

\* bot.py:1718-1836  the file is read; a file without rows is rejected.
HFRead ==
  /\ h_pc = "read_csv"
  /\ \E n_rows \in {0, 1}, edit_ok \in BOOLEAN :
       IF n_rows = 0
       THEN h_pc' = "rejected" /\ UNCHANGED <<sent, last_update, current_percent>>
       ELSE h_pc' = "prepare" /\ tracker_update(20, FALSE, edit_ok)
  /\ UNCHANGED <<now, emitted, run_length, loop_tasks, in_flight, other, semaphore>>
  /\ UNCHANGED pipeline_vars
  /\ UNCHANGED not_loop

\* bot.py:1838-1868  the last update before the call, then the call itself:
\* no permit of PROCESSING_SEMAPHORE is taken.
HFCallPipeline ==
  /\ h_pc = "prepare"
  /\ \E edit_ok \in BOOLEAN : tracker_update(40, FALSE, edit_ok)
  /\ h_pc' = "pipeline"
  /\ \E e \in RunEnds : run_length' = e.calls /\ err' = [kind |-> e.kind, stage |-> ""]
  /\ emitted' = 0
  /\ UNCHANGED <<now, loop_tasks, in_flight, other, semaphore>>
  /\ UNCHANGED <<raw_texts, caller, loop_ctx, has_callback, yandex_configured, pc, trace,
                 df, topics, embedding_model, params, quality_metrics, cluster_names,
                 table, table_written, result, tasks, observer_raised, hf>>
  /\ UNCHANGED not_loop

\* clustering.py:538-546  one sync_log call of the running pipeline: the
\* loop is running, so a log_progress task is created and nothing is sent.
PipelineLog ==
  /\ h_pc = "pipeline"
  /\ emitted < run_length
  /\ emitted' = emitted + 1
  /\ loop_tasks' = IF sync_log("ok") = "task"
                   THEN Append(loop_tasks, sync_log_message(run_length, emitted + 1))
                   ELSE loop_tasks
  /\ UNCHANGED <<h_pc, now, last_update, current_percent, sent, run_length,
                 in_flight, other, semaphore>>
  /\ UNCHANGED pipeline_vars
  /\ UNCHANGED not_loop

\* bot.py:1865, 1997-2049  the call is over: a returned tuple is unpacked
\* into four names, an exception reaches one of the except branches, whose
\* first await suspends handle_file.
HFAfterPipeline ==
  /\ h_pc = "pipeline"
  /\ emitted = run_length
  /\ LET branch == IF err.kind = "return"
                   THEN consume_result(<<OutPath, [n_clusters |-> 1, total_texts |-> 1]>>)
                   ELSE except_branch(err.kind)
     IN h_pc' = branch
  /\ UNCHANGED <<now, last_update, current_percent, sent, emitted, run_length,
                 loop_tasks, in_flight, other, semaphore>>
  /\ UNCHANGED pipeline_vars
  /\ UNCHANGED not_loop

\* bot.py:2001-2055  the error text is shown (the "critical" branch deletes
\* the progress message first), the temporary file removed.
HFFinish ==
  /\ h_pc \in {"validation_error", "critical_error"}
  /\ h_pc' = IF h_pc = "critical_error" THEN "finished_deleted" ELSE "finished"
  /\ UNCHANGED <<now, last_update, current_percent, sent, emitted, run_length,
                 loop_tasks, in_flight, other, semaphore>>
  /\ UNCHANGED pipeline_vars
  /\ UNCHANGED not_loop

\* clustering.py:530-536, bot.py:1845-1862, progress_tracker.py:39-57  the
\* loop starts the oldest log_progress task: the callback maps the message
\* to a percentage and awaits tracker.update, which awaits edit_text.
RunTask ==
  /\ LoopFree
  /\ loop_tasks # <<>>
  /\ loop_tasks' = Tail(loop_tasks)
  /\ LET percent == clustering_progress_callback(Head(loop_tasks))
     IN in_flight' = IF percent # 0 /\ should_update(FALSE)
                     THEN Append(in_flight,
                                 [percent |-> shown_percent(percent, FALSE), at |-> now])
                     ELSE in_flight
  /\ UNCHANGED <<h_pc, now, last_update, current_percent, sent, emitted, run_length,
                 other, semaphore>>
  /\ UNCHANGED pipeline_vars
  /\ UNCHANGED not_loop

\* A progress message that was deleted cannot be edited any more.
EditAnswers == IF h_pc = "finished_deleted" THEN {FALSE} ELSE BOOLEAN

\* progress_tracker.py:57-64  edit_text of a task returns (the text is
\* shown, the tracker remembers the update) or raises (swallowed).
CompleteEdit ==
  /\ LoopFree
  /\ \E i \in 1..Len(in_flight), edit_ok \in EditAnswers :
       /\ in_flight' = SubSeq(in_flight, 1, i - 1) \o SubSeq(in_flight, i + 1, Len(in_flight))
       /\ IF edit_ok
          THEN /\ sent' = Append(sent, in_flight[i].percent)
               /\ last_update' = in_flight[i].at
               /\ current_percent' = in_flight[i].percent
          ELSE UNCHANGED <<sent, last_update, current_percent>>
  /\ UNCHANGED <<h_pc, now, emitted, run_length, loop_tasks, other, semaphore>>
  /\ UNCHANGED pipeline_vars
  /\ UNCHANGED not_loop

\* An update of another user reaches the bot.
OtherArrives ==
  /\ other = "none"
  /\ other' = "queued"
  /\ UNCHANGED <<h_pc, now, last_update, current_percent, sent, emitted, run_length,
                 loop_tasks, in_flight, semaphore>>
  /\ UNCHANGED pipeline_vars
  /\ UNCHANGED not_loop

\* The loop runs the handler of the other user's update.
OtherHandled ==
  /\ LoopFree
  /\ other = "queued"
  /\ other' = "handled"
  /\ UNCHANGED <<h_pc, now, last_update, current_percent, sent, emitted, run_length,
                 loop_tasks, in_flight, semaphore>>
  /\ UNCHANGED pipeline_vars
  /\ UNCHANGED not_loop

NextLoop ==
  \/ Tick
  \/ HFStart
  \/ HFDownloaded
  \/ HFRead
  \/ HFCallPipeline
  \/ PipelineLog
  \/ HFAfterPipeline
  \/ HFFinish
  \/ RunTask
  \/ CompleteEdit
  \/ OtherArrives
  \/ OtherHandled

SpecLoop == InitLoop /\ [][NextLoop]_vars

Next ==
  \/ Load
  \/ Normalize
  \/ Dedup
  \/ LoadModel
  \/ SelectParams
  \/ Reduce
  \/ Cluster
  \/ Score
  \/ NameClusters
  \/ Hierarchy
  \/ HFAnalyse
  \/ HFReturn
  \/ HFExcept

Spec == Init /\ [][Next]_vars

\* ---------------------------------------------------------------- merge_similar_clusters
MaxMergeId == 2
MaxMergeDocs == 3

\* Cosine similarities of two cluster centres and thresholds, in percent
\* (clustering.py:390: similarity_threshold=0.75).
SimLevels == {70, 75, 90}
Thresholds == {75, 90}

MergePairs == { p \in (0..MaxMergeId) \X (0..MaxMergeId) : p[1] < p[2] }

MergeInputs ==
  UNION { [1..n -> {NOISE} \cup (0..MaxMergeId)] : n \in 0..MaxMergeDocs }

\* clustering.py:408  the clusters without the noise; a set of small
\* non-negative ints is iterated in increasing order.
unique_clusters(labels) == SortedSeq(Range(labels) \ {NOISE})

\* clustering.py:447-463  the pairs i < j in the order of the two loops;
\* a source that already has a target is skipped.
RECURSIVE merge_pairs(_, _, _, _, _, _)
merge_pairs(cluster_ids, sim, threshold, i, j, merge_map) ==
  IF i > Len(cluster_ids) THEN merge_map
  ELSE IF j > Len(cluster_ids)
  THEN merge_pairs(cluster_ids, sim, threshold, i + 1, i + 2, merge_map)
  ELSE LET target == Min(cluster_ids[i], cluster_ids[j])
           source == Max(cluster_ids[i], cluster_ids[j])
       IN IF sim[<<target, source>>] >= threshold /\ source \notin DOMAIN merge_map
          THEN merge_pairs(cluster_ids, sim, threshold, i, j + 1,
                           merge_map @@ (source :> target))
          ELSE merge_pairs(cluster_ids, sim, threshold, i, j + 1, merge_map)

\* clustering.py:390-476  the returned pair (topics, merge_map).
merge_similar_clusters(labels, sim, threshold) ==
  LET cluster_ids == unique_clusters(labels)
      merge_map == merge_pairs(cluster_ids, sim, threshold, 1, 2, <<>>)
  IN IF Len(cluster_ids) < 2 \/ DOMAIN merge_map = {}
     THEN <<labels, <<>>>>
     ELSE <<[i \in 1..Len(labels) |->
               IF labels[i] \in DOMAIN merge_map THEN merge_map[labels[i]] ELSE labels[i]],
            merge_map>>

InitMerge ==
  /\ merge_topics \in MergeInputs
  /\ similarity_matrix \in [MergePairs -> SimLevels]
  /\ similarity_threshold \in Thresholds
  /\ merge_result = <<>>
  /\ PipelineIdle
  /\ LoopIdle
  /\ SelectorIdle
  /\ MetricsIdle
  /\ HierarchyIdle
  /\ StatsIdle
  /\ CacheIdle
  /\ RateIdle
  /\ LlmIdle
  /\ TrackerIdle
  /\ DialogIdle
  /\ FilesIdle

MergeCall ==
  /\ merge_result = <<>>
  /\ merge_result' =
       merge_similar_clusters(merge_topics, similarity_matrix, similarity_threshold)
  /\ UNCHANGED <<merge_topics, similarity_matrix, similarity_threshold>>
  /\ UNCHANGED not_merge

NextMerge == MergeCall

SpecMerge == InitMerge /\ [][NextMerge]_vars

\* ---------------------------------------------------------------- get_clustering_params
MaxMultiple == 2
DimSteps == 5

\* cluster_params.py:20, 35  the reference dimensionality.
BaselineDim == 384

\* The upper ends of the size buckets (cluster_params.py:46-118).
BucketEnds == {50, 100, 250, 500, 1000, 2500, 5000, 10000, 30000}

\* Corpus sizes around every bucket end and around its multiples.
CorpusSizes ==
  { k * b + d : b \in BucketEnds, k \in 1..MaxMultiple, d \in {-1, 0, 1} } \cup {1, 4}

\* Dimensionalities from BaselineDim / DimSteps up to three times the
\* baseline, and those of the models named in cluster_params.py:27.
Dimensions ==
  { (BaselineDim * k) \div DimSteps : k \in 1..(3 * DimSteps) } \cup {312, 384, 512, 768}

Record(mcs, ms, nn, nc) ==
  [min_cluster_size |-> mcs, min_samples |-> ms, n_neighbors |-> nn, n_components |-> nc]

\* The buckets with the value of the 100-250 bucket lowered below that of
\* the bucket before it.
base_params_unordered(n) ==
  IF n < 50 THEN Record(3, 1, 5, 5)
  ELSE IF n < 100 THEN Record(4, 2, 8, 7)
  ELSE IF n < 250 THEN Record(3, 2, 10, 8)
  ELSE IF n < 500 THEN Record(7, 3, 15, 10)
  ELSE IF n < 1000 THEN Record(10, 3, 20, 10)
  ELSE IF n < 2500 THEN Record(15, 4, 25, 10)
  ELSE IF n < 5000 THEN Record(20, 5, 30, 12)
  ELSE IF n < 10000 THEN Record(30, 7, 40, 12)
  ELSE IF n < 30000 THEN Record(45, 10, 55, 12)
  ELSE Record(60, 15, 70, 15)

\* cluster_params.py:46-134
base_params(n) ==
  IF n < 50 THEN Record(3, 1, 5, 5)
  ELSE IF n < 100 THEN Record(4, 2, 8, 7)
  ELSE IF n < 250 THEN Record(5, 2, 10, 8)
  ELSE IF n < 500 THEN Record(7, 3, 15, 10)
  ELSE IF n < 1000 THEN Record(10, 3, 20, 10)
  ELSE IF n < 2500 THEN Record(15, 4, 25, 10)
  ELSE IF n < 5000 THEN Record(20, 5, 30, 12)
  ELSE IF n < 10000 THEN Record(30, 7, 40, 12)
  ELSE IF n < 30000 THEN Record(45, 10, 55, 12)
  ELSE Record(60, 15, 70, 15)

\* max(lo, min(hi, dim / 384.0)) as a fraction <<numerator, denominator>>;
\* lo and hi are given in tenths (cluster_params.py:35-43).
multiplier(dim, lo, hi) ==
  IF 10 * dim < lo * BaselineDim THEN <<lo, 10>>
  ELSE IF 10 * dim > hi * BaselineDim THEN <<hi, 10>>
  ELSE <<dim, BaselineDim>>

\* int(base * multiplier)
scaled(base, m) == (base * m[1]) \div m[2]

\* The correction applied without the two minimums.
get_clustering_params_no_minimum(n, dim) ==
  LET base == base_params(n)
  IN Record(scaled(base.min_cluster_size, multiplier(dim, 6, 12)),
            base.min_samples,
            base.n_neighbors,
            scaled(base.n_components, multiplier(dim, 8, 15)))

\* cluster_params.py:20-145
get_clustering_params(n, dim) ==
  LET base == base_params(n)
      size_multiplier == multiplier(dim, 6, 12)
      component_multiplier == multiplier(dim, 8, 15)
  IN Record(Max(3, scaled(base.min_cluster_size, size_multiplier)),
            base.min_samples,
            base.n_neighbors,
            Max(5, scaled(base.n_components, component_multiplier)))

InitSelector ==
  /\ n_texts \in CorpusSizes
  /\ embedding_dim \in Dimensions
  /\ adjusted_params = <<>>
  /\ PipelineIdle
  /\ LoopIdle
  /\ MergeIdle
  /\ MetricsIdle
  /\ HierarchyIdle
  /\ StatsIdle
  /\ CacheIdle
  /\ RateIdle
  /\ LlmIdle
  /\ TrackerIdle
  /\ DialogIdle
  /\ FilesIdle

SelectorCall ==
  /\ adjusted_params = <<>>
  /\ adjusted_params' = get_clustering_params(n_texts, embedding_dim)
  /\ UNCHANGED <<n_texts, embedding_dim>>
  /\ UNCHANGED not_selector

NextSelector == SelectorCall

SpecSelector == InitSelector /\ [][NextSelector]_vars

\* ---------------------------------------------------------------- ClusteringMetrics.calculate
MaxLabelsLen == 4

\* Label arrays over noise and the clusters 0..MaxLabel+1.
LabelArrays ==
  UNION { [1..n -> {NOISE} \cup (0..(MaxLabel + 1))] : n \in 0..MaxLabelsLen }

\* One embedding per label; sklearn rejects vectors with a NaN or infinite
\* entry with a ValueError.
EmbeddingKinds == {"finite", "nan"}

shape_ok_for(embeddings, labels) ==
  embeddings = "finite" /\ shape_metrics_defined(labels)

InitMetrics ==
  /\ calc_embeddings \in EmbeddingKinds
  /\ calc_labels \in LabelArrays
  /\ calc_metrics = <<>>
  /\ PipelineIdle
  /\ LoopIdle
  /\ MergeIdle
  /\ SelectorIdle
  /\ HierarchyIdle
  /\ StatsIdle
  /\ CacheIdle
  /\ RateIdle
  /\ LlmIdle
  /\ TrackerIdle
  /\ DialogIdle
  /\ FilesIdle

MetricsCall ==
  /\ calc_metrics = <<>>
  /\ calc_metrics' = calculate(calc_labels, shape_ok_for(calc_embeddings, calc_labels))
  /\ UNCHANGED <<calc_embeddings, calc_labels>>
  /\ UNCHANGED not_metrics

NextMetrics == MetricsCall

SpecMetrics == InitMetrics /\ [][NextMetrics]_vars

\* ---------------------------------------------------------------- create_hierarchy
MaxMaster == 2

\* Every id of topics, the noise id included.
all_clusters(labels) == SortedSeq(Range(labels))

\* hierarchical_clustering.py:33  unique_clusters
non_noise_clusters(labels) == SortedSeq(Range(labels) \ {NOISE})

\* hierarchical_clustering.py:60-66  what fit_predict returns for k cluster
\* centres: one of the labels 0..n-1 for each centre, every label used.
MasterLabelings(k, n) ==
  { f \in [1..k -> 0..(n - 1)] : \A m \in 0..(n - 1) : \E i \in 1..k : f[i] = m }

Position(seq, x) == CHOOSE i \in 1..Len(seq) : seq[i] = x

\* hierarchical_clustering.py:17-92  the returned tuple:
\* (hierarchy, topics) when there are at most n_master clusters, else
\* (hierarchy, master_topics, cluster_to_master).
create_hierarchy(labels, n_master, master_labels) ==
  LET cluster_ids == non_noise_clusters(labels)
  IN IF Len(cluster_ids) <= n_master
     THEN <<[c \in Range(cluster_ids) |-> <<c>>], labels>>
     ELSE LET cluster_to_master ==
                [c \in Range(cluster_ids) |-> master_labels[Position(cluster_ids, c)]]
              hierarchy ==
                [m \in { master_labels[i] : i \in 1..Len(cluster_ids) } |->
                   SelectSeq(cluster_ids, LAMBDA c : cluster_to_master[c] = m)]
              master_topics ==
                [i \in 1..Len(labels) |->
                   IF labels[i] # NOISE
                   THEN (IF labels[i] \in DOMAIN cluster_to_master
                         THEN cluster_to_master[labels[i]] ELSE -1)
                   ELSE -1]
          IN <<hierarchy, master_topics, cluster_to_master>>

InitHierarchy ==
  /\ hier_topics \in LabelArrays
  /\ n_master_categories \in 1..MaxMaster
  /\ hier_result = <<>>
  /\ PipelineIdle
  /\ LoopIdle
  /\ MergeIdle
  /\ SelectorIdle
  /\ MetricsIdle
  /\ StatsIdle
  /\ CacheIdle
  /\ RateIdle
  /\ LlmIdle
  /\ TrackerIdle
  /\ DialogIdle
  /\ FilesIdle

HierarchyCall ==
  /\ hier_result = <<>>
  /\ LET k == Len(non_noise_clusters(hier_topics))
     IN \E master_labels \in
             (IF k > n_master_categories
              THEN MasterLabelings(k, n_master_categories) ELSE {<<>>}) :
          hier_result' = create_hierarchy(hier_topics, n_master_categories, master_labels)
  /\ UNCHANGED <<hier_topics, n_master_categories>>
  /\ UNCHANGED not_hierarchy

NextHierarchy == HierarchyCall

SpecHierarchy == InitHierarchy /\ [][NextHierarchy]_vars

\* ---------------------------------------------------------------- calculate_metrics
\* calculate_metrics applied to label arrays and name dictionaries.
MaxStatsLen == 5

\* Four cluster ids, one more than top_clusters keeps.
StatsIds == 0..3

StatsLabelArrays ==
  UNION { [1..n -> {NOISE} \cup StatsIds] : n \in 0..MaxStatsLen }

\* cluster_names as the callers build it: a name for some or all clusters.
\* A name is generated per cluster, so two clusters can carry the same one,
\* and a generated name can coincide with another cluster's default name.
StatsNameDicts(labels) ==
  { [c \in Clusters(labels) |-> Name("LLM", c)],
    [c \in Clusters(labels) |-> Name("LLM", 0)],
    [c \in Clusters(labels) |-> Name("LLM", c \div 2)],
    [c \in Clusters(labels) \cap {0} |-> Name("Cluster", 1)],
    [c \in {} |-> Name("LLM", c)] }

InitStats ==
  /\ stats_topics \in StatsLabelArrays
  /\ stats_names \in StatsNameDicts(stats_topics)
  /\ stats = <<>>
  /\ PipelineIdle
  /\ LoopIdle
  /\ MergeIdle
  /\ SelectorIdle
  /\ MetricsIdle
  /\ HierarchyIdle
  /\ CacheIdle
  /\ RateIdle
  /\ LlmIdle
  /\ TrackerIdle
  /\ DialogIdle
  /\ FilesIdle

StatsCall ==
  /\ stats = <<>>
  /\ stats' = calculate_metrics(stats_topics, stats_names)
  /\ UNCHANGED <<stats_topics, stats_names>>
  /\ UNCHANGED not_stats

NextStats == StatsCall

SpecStats == InitStats /\ [][NextStats]_vars

\* ---------------------------------------------------------------- ClusteringCache
\* config.py:17-18
MAX_CACHE_AGE_SECONDS == 3600
MAX_CACHE_ITEMS == 100

MaxCacheSeconds == 1
MaxSaves == 3

CacheUsers == {1, 2}
CachePayloads == {"d1", "d2"}

\* cache_manager.py:16-20. The formatted string determines user_id, file_name
\* and the whole second; md5 is taken to be collision-free on them.
_get_cache_key(user_id, file_name, t) ==
  [user_id |-> user_id, file_name |-> file_name, timestamp |-> t]

\* The files left by earlier runs are older than every file written by save and
\* are told apart only by their number; they were written at second 0.
OldMtime == 0

\* cache_manager.py:70-74: position of key k in cache_files sorted by st_mtime,
\* newest first (0 is the newest). A file written later has a later st_mtime.
NewerFiles(files, k) ==
  Cardinality({ j \in DOMAIN files : files[j].written > files[k].written })

IsExpired(mtime, t) == t - mtime > MAX_CACHE_AGE_SECONDS

\* cache_manager.py:68-84. The files beyond MAX_CACHE_ITEMS are unlinked
\* (76-78); the second loop walks the whole sorted list, unlinks the expired
\* files it meets, and calls stat() on every element: on an element unlinked by
\* the first loop stat() raises FileNotFoundError.
_cleanup_old_cache(files, old, t) ==
  LET kept == { k \in DOMAIN files : NewerFiles(files, k) < MAX_CACHE_ITEMS }
      kept_old == Min(old, Max(0, MAX_CACHE_ITEMS - Cardinality(kept)))
      fresh == { k \in kept : ~IsExpired(files[k].mtime, t) }
  IN [files |-> [k \in fresh |-> files[k]],
      old |-> IF IsExpired(OldMtime, t) THEN 0 ELSE kept_old,
      raised |-> kept # DOMAIN files \/ kept_old # old]

\* The state after ClusteringCache() has been constructed without raising
\* (cache_manager.py:12-14, 87) over a directory of n files.
CacheConstructed(n) ==
  /\ cache_files = <<>>
  /\ cache_old = _cleanup_old_cache(<<>>, n, 0).old
  /\ ~_cleanup_old_cache(<<>>, n, 0).raised
  /\ cache_now = 0
  /\ cache_written = 0
  /\ cache_saves = {}
  /\ cache_op = [op |-> "none"]

InitCache ==
  /\ \E n \in {0, MAX_CACHE_ITEMS - 1, MAX_CACHE_ITEMS} : CacheConstructed(n)
  /\ PipelineIdle
  /\ LoopIdle
  /\ MergeIdle
  /\ SelectorIdle
  /\ MetricsIdle
  /\ HierarchyIdle
  /\ StatsIdle
  /\ RateIdle
  /\ LlmIdle
  /\ TrackerIdle
  /\ DialogIdle
  /\ FilesIdle

\* time.time() advances.
CacheTick ==
  /\ \E d \in {1, MAX_CACHE_AGE_SECONDS} :
       /\ cache_now + d <= MAX_CACHE_AGE_SECONDS + MaxCacheSeconds
       /\ (cache_now + d) % MAX_CACHE_AGE_SECONDS <= MaxCacheSeconds
       /\ cache_now' = cache_now + d
  /\ UNCHANGED <<cache_files, cache_old, cache_written, cache_saves, cache_op>>
  /\ UNCHANGED not_cache

\* cache_manager.py:22-50
save(user_id, file_name, payload) ==
  LET cache_key == _get_cache_key(user_id, file_name, cache_now)
      data == [payload |-> payload, timestamp |-> cache_now, user_id |-> user_id]
      file == [mtime |-> cache_now, written |-> cache_written + 1, data |-> data]
      written == [k \in DOMAIN cache_files \cup {cache_key} |->
                    IF k = cache_key THEN file ELSE cache_files[k]]
      cleaned == _cleanup_old_cache(written, cache_old, cache_now)
  IN /\ cache_written < MaxSaves
     /\ cache_written' = cache_written + 1
     /\ cache_files' = cleaned.files
     /\ cache_old' = cleaned.old
     /\ cache_saves' = IF cleaned.raised THEN cache_saves
                       ELSE cache_saves \cup {[key |-> cache_key, data |-> data]}
     /\ cache_op' = [op |-> "save", key |-> cache_key, at |-> cache_now,
                      raised |-> cleaned.raised]
     /\ UNCHANGED cache_now
     /\ UNCHANGED not_cache

CacheSave ==
  \E user_id \in CacheUsers, payload \in CachePayloads :
    save(user_id, "test.csv", payload)

\* cache_manager.py:52-66
load(cache_key) ==
  /\ IF cache_key \notin DOMAIN cache_files
     THEN /\ cache_op' = [op |-> "load", key |-> cache_key, found |-> FALSE]
          /\ UNCHANGED cache_files
     ELSE IF IsExpired(cache_files[cache_key].mtime, cache_now)
     THEN /\ cache_op' = [op |-> "load", key |-> cache_key, found |-> FALSE]
          /\ cache_files' = [k \in DOMAIN cache_files \ {cache_key} |-> cache_files[k]]
     ELSE /\ cache_op' = [op |-> "load", key |-> cache_key, found |-> TRUE,
                          data |-> cache_files[cache_key].data]
          /\ UNCHANGED cache_files
  /\ UNCHANGED <<cache_old, cache_now, cache_written, cache_saves>>
  /\ UNCHANGED not_cache

\* The keys handed out in callback_data (bot.py:1952-1953, 2475).
CacheLoad ==
  \E s \in cache_saves : load(s.key)

NextCache == CacheTick \/ CacheSave \/ CacheLoad

SpecCache == InitCache /\ [][NextCache]_vars

\* ---------------------------------------------------------------- RateLimiter
MaxRequests == 2
MaxWindow == 2
MaxRateClock == 6
MaxCalls == 4

RateUsers == {1, 2}

\* time.time() is a float: the model's clock counts half seconds.
HalfSeconds(seconds) == 2 * seconds
WholeSeconds(half_seconds) == half_seconds \div 2

\* rate_limiter.py:18-30
InitRate ==
  /\ max_requests \in 1..MaxRequests
  /\ window_seconds \in 1..MaxWindow
  /\ requests = [u \in RateUsers |-> <<>>]
  /\ rate_now = 0
  /\ rate_allowed = <<>>
  /\ rate_op = [op |-> "none"]
  /\ PipelineIdle
  /\ LoopIdle
  /\ MergeIdle
  /\ SelectorIdle
  /\ MetricsIdle
  /\ HierarchyIdle
  /\ StatsIdle
  /\ CacheIdle
  /\ LlmIdle
  /\ TrackerIdle
  /\ DialogIdle
  /\ FilesIdle

RateTick ==
  /\ rate_now < MaxRateClock
  /\ rate_now' = rate_now + 1
  /\ UNCHANGED <<max_requests, window_seconds, requests, rate_allowed, rate_op>>
  /\ UNCHANGED not_rate

\* rate_limiter.py:45-48
recent(timestamps, t) ==
  SelectSeq(timestamps, LAMBDA ts : t - ts < HalfSeconds(window_seconds))

\* min() of a non-empty list
oldest_request(timestamps) ==
  CHOOSE m \in Range(timestamps) : \A ts \in Range(timestamps) : m <= ts

\* The wait without the added second.
wait_time_truncated(timestamps, t) ==
  WholeSeconds(HalfSeconds(window_seconds) - (t - oldest_request(timestamps)))

\* rate_limiter.py:55
wait_time(timestamps, t) ==
  WholeSeconds(HalfSeconds(window_seconds) - (t - oldest_request(timestamps))) + 1

\* rate_limiter.py:32-75
is_allowed(user_id) ==
  LET kept == recent(requests[user_id], rate_now)
      current_count == Len(kept)
      call == [op |-> "is_allowed", user_id |-> user_id, at |-> rate_now,
               before |-> requests]
  IN /\ Len(rate_allowed) + (IF rate_op.op = "none" THEN 0 ELSE rate_op.denied) < MaxCalls
     /\ IF current_count >= max_requests
        THEN /\ requests' = [requests EXCEPT ![user_id] = kept]
             /\ rate_op' = call @@ [allowed |-> FALSE, remaining |-> 0,
                                    wait |-> wait_time(kept, rate_now),
                                    denied |-> (IF rate_op.op = "none" THEN 0
                                                ELSE rate_op.denied) + 1]
             /\ UNCHANGED rate_allowed
        ELSE /\ requests' = [requests EXCEPT ![user_id] = Append(kept, rate_now)]
             /\ rate_op' = call @@ [allowed |-> TRUE,
                                    remaining |-> max_requests - current_count - 1,
                                    wait |-> 0,
                                    denied |-> IF rate_op.op = "none" THEN 0
                                               ELSE rate_op.denied]
             /\ rate_allowed' = Append(rate_allowed, [user_id |-> user_id, at |-> rate_now])
     /\ UNCHANGED <<max_requests, window_seconds, rate_now>>
     /\ UNCHANGED not_rate

RateCall == \E user_id \in RateUsers : is_allowed(user_id)

NextRate == RateTick \/ RateCall

SpecRate == InitRate /\ [][NextRate]_vars

\* ---------------------------------------------------------------- YandexGPT helpers
MaxRetries == 3

\* What one requests.post can meet: status 200 with a well-formed body, a
\* success status other than 200 with a well-formed body, status 200 with a
\* body that is not JSON or lacks result/alternatives or is empty, status 200
\* with an alternative that has no message text key, status 429, another 4xx,
\* a 5xx, requests.exceptions.Timeout, another RequestException.
PostOutcomes ==
  {"200", "2xx", "invalid", "malformed", "429", "4xx", "5xx", "timeout", "network"}

\* The namer retrying after every failure.
namer_handle_retry_all(outcome) ==
  IF outcome = "200" THEN "text" ELSE "continue"

\* clustering.py:169-203: one iteration of the loop body.
namer_handle(outcome) ==
  CASE outcome = "200" -> "text"                        \* 172-182
    [] outcome \in {"invalid", "malformed"} -> "None"   \* 173-174 raise, 201-203
    [] outcome = "429" -> "continue"                    \* 184-188
    [] outcome \in {"2xx", "4xx", "5xx"} -> "None"      \* 190-192
    [] outcome = "timeout" -> "continue"                \* 194-199
    [] outcome = "network" -> "None"                    \* 201-203

\* classification.py:124-203: one iteration of the loop body.
classifier_handle(outcome) ==
  CASE outcome = "429" -> "continue"                    \* 133-137
    [] outcome = "5xx" -> "continue"                    \* 150-154
    [] outcome = "4xx" -> "ValueError"                  \* 155-158, 200-203
    [] outcome = "invalid" -> "ValueError"              \* 161-179, 200-203
    [] outcome = "malformed" -> "KeyError"              \* 176
    [] outcome \in {"200", "2xx"} -> "text"             \* 181
    [] outcome = "timeout" -> "continue"                \* 183-190
    [] outcome = "network" -> "continue"                \* 192-198

InitLLM ==
  /\ llm_helper \in {"namer", "classifier"}
  /\ llm_configured \in (IF llm_helper = "namer" THEN BOOLEAN ELSE {TRUE})
  /\ llm_max_retries \in 0..MaxRetries
  /\ llm_attempt = 0
  /\ llm_outcomes = <<>>
  /\ llm_result = "running"
  /\ PipelineIdle
  /\ LoopIdle
  /\ MergeIdle
  /\ SelectorIdle
  /\ MetricsIdle
  /\ HierarchyIdle
  /\ StatsIdle
  /\ CacheIdle
  /\ RateIdle
  /\ TrackerIdle
  /\ DialogIdle
  /\ FilesIdle

\* clustering.py:115-116
NamerNotConfigured ==
  /\ llm_helper = "namer"
  /\ llm_result = "running"
  /\ ~llm_configured
  /\ llm_result' = "None"
  /\ UNCHANGED <<llm_helper, llm_configured, llm_max_retries, llm_attempt, llm_outcomes>>
  /\ UNCHANGED not_llm

\* clustering.py:168-203: one pass of the for loop.
NamerAttempt ==
  /\ llm_helper = "namer"
  /\ llm_result = "running"
  /\ llm_configured
  /\ llm_attempt < llm_max_retries
  /\ \E outcome \in PostOutcomes :
       /\ llm_outcomes' = Append(llm_outcomes, outcome)
       /\ llm_result' = IF namer_handle(outcome) = "continue" THEN "running"
                        ELSE namer_handle(outcome)
  /\ llm_attempt' = llm_attempt + 1
  /\ UNCHANGED <<llm_helper, llm_configured, llm_max_retries>>
  /\ UNCHANGED not_llm

\* clustering.py:205: the loop has run out.
NamerExhausted ==
  /\ llm_helper = "namer"
  /\ llm_result = "running"
  /\ llm_configured
  /\ llm_attempt >= llm_max_retries
  /\ llm_result' = "None"
  /\ UNCHANGED <<llm_helper, llm_configured, llm_max_retries, llm_attempt, llm_outcomes>>
  /\ UNCHANGED not_llm

\* classification.py:123-203: one pass of the for loop.
ClassifierAttempt ==
  /\ llm_helper = "classifier"
  /\ llm_result = "running"
  /\ llm_attempt < llm_max_retries
  /\ \E outcome \in PostOutcomes :
       /\ llm_outcomes' = Append(llm_outcomes, outcome)
       /\ llm_result' = IF classifier_handle(outcome) = "continue" THEN "running"
                        ELSE classifier_handle(outcome)
  /\ llm_attempt' = llm_attempt + 1
  /\ UNCHANGED <<llm_helper, llm_configured, llm_max_retries>>
  /\ UNCHANGED not_llm

\* classification.py:205-211: the loop has run out.
ClassifierExhausted ==
  /\ llm_helper = "classifier"
  /\ llm_result = "running"
  /\ llm_attempt >= llm_max_retries
  /\ llm_result' = "RequestException"
  /\ UNCHANGED <<llm_helper, llm_configured, llm_max_retries, llm_attempt, llm_outcomes>>
  /\ UNCHANGED not_llm

NextLLM ==
  \/ NamerNotConfigured
  \/ NamerAttempt
  \/ NamerExhausted
  \/ ClassifierAttempt
  \/ ClassifierExhausted

SpecLLM == InitLLM /\ [][NextLLM]_vars

\* ---------------------------------------------------------------- ProgressTracker
MaxTrackerClock == 5

NeverSent == 0 - 1

TrackerPercents == {0 - 5, 0, 50, 99, 100, 150}
TrackerStages == {"stage", "done"}

\* progress_tracker.py:16-27. time.time() counts from the epoch, so the tracker
\* is constructed at a time that is at least min_interval.
InitTracker ==
  /\ tracker_now = min_interval
  /\ tracker_last_update = 0
  /\ tracker_current_percent = 0
  /\ tracker_current_stage = ""
  /\ tracker_last_sent = NeverSent
  /\ tracker_op = [op |-> "none"]
  /\ PipelineIdle
  /\ LoopIdle
  /\ MergeIdle
  /\ SelectorIdle
  /\ MetricsIdle
  /\ HierarchyIdle
  /\ StatsIdle
  /\ CacheIdle
  /\ RateIdle
  /\ LlmIdle
  /\ DialogIdle
  /\ FilesIdle

TrackerTick ==
  /\ tracker_now < min_interval + MaxTrackerClock
  /\ tracker_now' = tracker_now + 1
  /\ UNCHANGED <<tracker_last_update, tracker_current_percent, tracker_current_stage,
                 tracker_last_sent, tracker_op>>
  /\ UNCHANGED not_tracker

\* progress_tracker.py:29-64. edit_ok is FALSE when edit_text raises; the
\* except clause swallows the exception.
update(stage, percent, force, edit_ok) ==
  LET shown == shown_percent(percent, force)
      throttled == ~(force \/ (tracker_now - tracker_last_update) >= min_interval)
      call == [op |-> "update", stage |-> stage, percent |-> percent, force |-> force,
               at |-> tracker_now, shown |-> shown, raised |-> FALSE,
               before |-> [last_update |-> tracker_last_update,
                           current_percent |-> tracker_current_percent,
                           current_stage |-> tracker_current_stage,
                           last_sent |-> tracker_last_sent]]
  IN /\ IF throttled
        THEN /\ tracker_op' = call @@ [edit |-> "dropped"]
             /\ UNCHANGED <<tracker_last_update, tracker_current_percent,
                            tracker_current_stage, tracker_last_sent>>
        ELSE IF ~edit_ok
        THEN /\ tracker_op' = call @@ [edit |-> "failed"]
             /\ UNCHANGED <<tracker_last_update, tracker_current_percent,
                            tracker_current_stage, tracker_last_sent>>
        ELSE /\ tracker_op' = call @@ [edit |-> "sent"]
             /\ tracker_last_update' = tracker_now
             /\ tracker_current_percent' = shown
             /\ tracker_current_stage' = stage
             /\ tracker_last_sent' = tracker_now
     /\ UNCHANGED tracker_now
     /\ UNCHANGED not_tracker

TrackerUpdate ==
  \E stage \in TrackerStages, percent \in TrackerPercents, force \in BOOLEAN,
     edit_ok \in BOOLEAN :
    update(stage, percent, force, edit_ok)

\* progress_tracker.py:97-99
TrackerComplete ==
  \E message \in TrackerStages, edit_ok \in BOOLEAN :
    update(message, 100, TRUE, edit_ok)

NextTracker == TrackerTick \/ TrackerUpdate \/ TrackerComplete

SpecTracker == InitTracker /\ [][NextTracker]_vars

\* ---------------------------------------------------------------- category dialog
MaxLines == 2

\* The lines a text message is made of: two category names, a bare list number
\* and a blank line.
TextLines == {"billing", "delivery", "1.", " "}
Texts == UNION { [1..n -> TextLines] : n \in 1..MaxLines }

Unset == <<"unset">>

\* user_data['generated_categories'] after start_category_generation (bot.py:796)
generated_categories == <<"billing", "delivery">>

\* classification.py:556-585: the text is split into lines, blank lines are
\* dropped, and list numbers are stripped from what is left.
parse_categories_from_text(text) ==
  LET kept == SelectSeq(text, LAMBDA line : line # " ")
  IN [i \in 1..Len(kept) |-> IF kept[i] = "1." THEN "" ELSE kept[i]]

\* classification.py:523-553
validate_categories(cats) ==
  /\ cats # <<>>
  /\ Len(cats) >= 2
  /\ Len(cats) <= 20
  /\ Cardinality(Range(cats)) = Len(cats)
  /\ \A i \in 1..Len(cats) : cats[i] # ""

\* The dialog while the bot waits for the first step of a mode chosen in
\* handle_mode_selection (bot.py:519, 552) and handle_category_method_choice
\* (bot.py:618, 631); in the automatic flow the categories have been generated
\* and are on display with their buttons.
InitDialog ==
  /\ \E m \in {<<"clustering", "">>, <<"classification", "manual">>,
               <<"classification", "auto">>} :
       mode = m[1] /\ category_method = m[2]
  /\ awaiting_edited_categories = FALSE
  /\ categories = Unset
  /\ dialog_prev = "none"
  /\ dialog_last = [update |-> "none"]
  /\ PipelineIdle
  /\ LoopIdle
  /\ MergeIdle
  /\ SelectorIdle
  /\ MetricsIdle
  /\ HierarchyIdle
  /\ StatsIdle
  /\ CacheIdle
  /\ RateIdle
  /\ LlmIdle
  /\ TrackerIdle
  /\ FilesIdle

\* How the update before the next one ended.
Ended(last) == IF last.update = "none" THEN "none" ELSE last.reply

\* bot.py:883-921  handle_generated_categories_action, edit_generated_cats
EditGeneratedCats ==
  /\ category_method = "auto"
  /\ awaiting_edited_categories' = TRUE
  /\ dialog_prev' = Ended(dialog_last)
  /\ dialog_last' = [update |-> "edit_generated_cats", reply |-> "send_edited_list"]
  /\ UNCHANGED <<mode, category_method, categories>>
  /\ UNCHANGED not_dialog

\* bot.py:840-881  handle_generated_categories_action, approve_generated_cats
ApproveGeneratedCats ==
  /\ category_method = "auto"
  /\ categories' = generated_categories
  /\ dialog_prev' = Ended(dialog_last)
  /\ dialog_last' = [update |-> "approve_generated_cats", reply |-> "approved"]
  /\ UNCHANGED <<mode, category_method, awaiting_edited_categories>>
  /\ UNCHANGED not_dialog

\* bot.py:1023-1156. No custom prompt is awaited: the key is deleted
\* (1038, 1051) before the categories are generated or classified.
handle_categories_input(text) ==
  LET cats == parse_categories_from_text(text)
      message == [update |-> "text", text |-> text]
  IN /\ dialog_prev' = Ended(dialog_last)
     /\ IF awaiting_edited_categories
        THEN \* 1062-1109
             /\ awaiting_edited_categories' = FALSE
             /\ IF ~validate_categories(cats)
                THEN /\ dialog_last' = message @@ [reply |-> "edited_invalid_try_again"]
                     /\ UNCHANGED categories
                ELSE /\ dialog_last' = message @@ [reply |-> "categories_updated"]
                     /\ categories' = cats
        ELSE IF mode # "classification"
        THEN \* 1111-1114
             /\ dialog_last' = message @@ [reply |-> "ignored"]
             /\ UNCHANGED <<awaiting_edited_categories, categories>>
        ELSE IF category_method = "auto"
        THEN \* 1116-1123
             /\ dialog_last' = message @@ [reply |-> "file_expected"]
             /\ UNCHANGED <<awaiting_edited_categories, categories>>
        ELSE IF ~validate_categories(cats)
        THEN \* 1127-1137
             /\ dialog_last' = message @@ [reply |-> "invalid_try_again"]
             /\ UNCHANGED <<awaiting_edited_categories, categories>>
        ELSE \* 1139-1156
             /\ dialog_last' = message @@ [reply |-> "categories_accepted"]
             /\ categories' = cats
             /\ UNCHANGED awaiting_edited_categories
     /\ UNCHANGED <<mode, category_method>>
     /\ UNCHANGED not_dialog

TextMessage == \E text \in Texts : handle_categories_input(text)

NextDialog == EditGeneratedCats \/ ApproveGeneratedCats \/ TextMessage

SpecDialog == InitDialog /\ [][NextDialog]_vars

\* ---------------------------------------------------------------- temporary files
\* The uploaded document: not readable as CSV, no row, 1 to 9 rows, 10 to
\* 10000 rows, 10001 to 50000 rows, more than 50000 rows.
Documents == {"unreadable", "rows_0", "rows_few", "rows_ok", "rows_over_10000",
              "rows_over_50000"}

UserData ==
  [mode : {"clustering", "classification"},
   category_method : {"", "manual", "auto"},
   has_categories : BOOLEAN]

\* bot.py:1586-1590
is_auto_generation ==
  /\ fs_user_data.category_method = "auto"
  /\ fs_user_data.mode = "classification"
  /\ ~fs_user_data.has_categories

InitFiles ==
  /\ fs_pc = "start"
  /\ fs_user_data \in UserData
  /\ fs_document \in Documents
  /\ fs_file_path = ""
  /\ fs_result_path = ""
  /\ fs_cache_key = FALSE
  /\ fs_tmp = {}
  /\ fs_exit = ""
  /\ PipelineIdle
  /\ LoopIdle
  /\ MergeIdle
  /\ SelectorIdle
  /\ MetricsIdle
  /\ HierarchyIdle
  /\ StatsIdle
  /\ CacheIdle
  /\ RateIdle
  /\ LlmIdle
  /\ TrackerIdle
  /\ DialogIdle

\* utils.py:53-65: nothing is deleted for None
cleanup_file_safe(tmp, path) == IF path = "" THEN tmp ELSE tmp \ {path}

\* bot.py:2051-2055
finally(tmp, file_path, result_path, cache_key) ==
  LET after == cleanup_file_safe(tmp, file_path)
  IN IF result_path # "" /\ cache_key THEN cleanup_file_safe(after, result_path)
     ELSE after

\* handle_file is left from the outer try: the finally clause runs.
Leave(how, tmp) ==
  /\ fs_pc' = "exit"
  /\ fs_exit' = how
  /\ fs_tmp' = finally(tmp, fs_file_path', fs_result_path', fs_cache_key')

\* bot.py:1532-1584: rate limit, disk space, file size, extension
FReject ==
  /\ fs_pc = "start"
  /\ UNCHANGED <<fs_user_data, fs_document, fs_file_path, fs_result_path, fs_cache_key>>
  /\ Leave("rejected", fs_tmp)
  /\ UNCHANGED not_files

\* bot.py:1603-1607 (auto-generation), 1708-1710 (normal branch)
FDownload ==
  /\ fs_pc = "start"
  /\ fs_pc' = "downloaded"
  /\ fs_tmp' = fs_tmp \cup {"download"}
  /\ fs_file_path' = IF is_auto_generation THEN fs_file_path ELSE "download"
  /\ UNCHANGED <<fs_user_data, fs_document, fs_result_path, fs_cache_key, fs_exit>>
  /\ UNCHANGED not_files

\* bot.py:1612-1638, 1675-1682: read the file, check the number of texts, copy
\* it to TEMP_DIR; copy_ok is FALSE when shutil.copy2 raises.
FAutoGeneration ==
  /\ fs_pc = "downloaded"
  /\ is_auto_generation
  /\ UNCHANGED <<fs_user_data, fs_document, fs_file_path, fs_result_path, fs_cache_key>>
  /\ IF fs_document = "unreadable"
     THEN Leave("auto_read_error", cleanup_file_safe(fs_tmp, fs_file_path))
     ELSE IF fs_document \in {"rows_0", "rows_few"}
     THEN Leave("auto_too_few", cleanup_file_safe(fs_tmp, "download"))
     ELSE \E copy_ok \in BOOLEAN :
            IF copy_ok
            THEN Leave("auto_prompt_choice",
                       cleanup_file_safe(fs_tmp \cup {"safe_copy"}, "download"))
            ELSE Leave("auto_copy_error", cleanup_file_safe(fs_tmp, fs_file_path))
  /\ UNCHANGED not_files

\* bot.py:1718-1798
FRead ==
  /\ fs_pc = "downloaded"
  /\ ~is_auto_generation
  /\ UNCHANGED <<fs_user_data, fs_document, fs_file_path, fs_result_path, fs_cache_key>>
  /\ IF fs_document = "unreadable" THEN Leave("read_error", fs_tmp)
     ELSE IF fs_document = "rows_over_50000" THEN Leave("too_many_rows", fs_tmp)
     ELSE IF fs_document = "rows_0" THEN Leave("empty", fs_tmp)
     ELSE fs_pc' = "read" /\ UNCHANGED <<fs_tmp, fs_exit>>
  /\ UNCHANGED not_files

\* bot.py:1800-1829, 2057-2272: the classification branch. The result file is
\* written (2172-2173) and deleted after it has been sent (2249-2257); an
\* exception in between is caught without deleting it (2259).
FClassification ==
  /\ fs_pc = "read"
  /\ fs_user_data.mode = "classification"
  /\ UNCHANGED <<fs_user_data, fs_document, fs_file_path, fs_result_path, fs_cache_key>>
  /\ IF ~fs_user_data.has_categories THEN Leave("no_categories", fs_tmp)
     ELSE IF fs_document = "rows_over_10000" THEN Leave("too_many_for_classification", fs_tmp)
     ELSE \E outcome \in {"fails_before_write", "fails_after_write", "sent"} :
            Leave("classification_" \o outcome,
                  IF outcome = "fails_after_write" THEN fs_tmp \cup {"classified"}
                  ELSE fs_tmp)
  /\ UNCHANGED not_files

\* bot.py:1831-1868, 1997-2049. clusterize_texts raises, or writes the result
\* file and returns (out, stats) (clustering.py:968-972); the assignment to four
\* targets then raises ValueError and binds nothing.
FClustering ==
  /\ fs_pc = "read"
  /\ fs_user_data.mode = "clustering"
  /\ UNCHANGED <<fs_user_data, fs_document, fs_file_path, fs_result_path, fs_cache_key>>
  /\ \E outcome \in {"ValueError", "Exception", "returns"} :
       Leave("clustering_" \o outcome,
             IF outcome = "returns" THEN fs_tmp \cup {"clustered"} ELSE fs_tmp)
  /\ UNCHANGED not_files

NextFiles ==
  \/ FReject
  \/ FDownload
  \/ FAutoGeneration
  \/ FRead
  \/ FClassification
  \/ FClustering

SpecFiles == InitFiles /\ [][NextFiles]_vars

\* ---------------------------------------------------------------- claims
Terminated == pc \in {"DONE", "ERROR"}
ValidCount == Len(valid_indices(raw_texts))
PostDedupCount == Len(drop_duplicates(raw_texts, valid_indices(raw_texts)))
Entered(stage) == stage \in Range(trace)
HeavyStages == {"DEDUPING", "EMBEDDING", "PARAM_SELECTION", "REDUCING", "CLUSTERING"}

TrivialResult ==
  /\ pc = "DONE"
  /\ Len(result) = 2
  /\ result[2].n_clusters = 1
  /\ result[2].total_texts = Len(raw_texts)
  /\ Len(table) = Len(raw_texts)
  /\ \A i \in 1..Len(raw_texts) : table[i].src = i /\ table[i].cluster_id = 0

C2_AsStated ==
  /\ PostDedupCount <= ShortCircuitMax => ~Entered("EMBEDDING")
  /\ (Terminated /\ PostDedupCount > ShortCircuitMax) => Entered("EMBEDDING")

\* C2 amended: the short circuit is decided on the number of valid rows
\* before deduplication: the embedding stage is entered only with at least 4
\* valid rows, every finished run with at least 4 valid rows has entered it,
\* and a run reaches DONE without it exactly when at most 3 rows are valid.
C2_BranchOnValidCount ==
  /\ Entered("EMBEDDING") => ValidCount > ShortCircuitMax
  /\ (Terminated /\ ValidCount > ShortCircuitMax) => Entered("EMBEDDING")
  /\ pc = "DONE" =>
       ((trace = <<"LOADING", "NORMALIZING", "DONE">>) <=> (ValidCount <= ShortCircuitMax))

\* C2 witness: four valid rows of which at most three are distinct went
\* through the whole pipeline.
C2_Witness ==
  /\ pc = "DONE"
  /\ ValidCount > ShortCircuitMax
  /\ PostDedupCount <= ShortCircuitMax
  /\ Entered("EMBEDDING")

StagesAsStated ==
  <<"LOADING", "NORMALIZING", "DEDUPING", "EMBEDDING", "PARAM_SELECTION",
    "REDUCING", "CLUSTERING", "NAMING", "HIERARCHY", "SCORING", "DONE">>

StagesOfCode ==
  <<"LOADING", "NORMALIZING", "DEDUPING", "EMBEDDING", "PARAM_SELECTION",
    "REDUCING", "CLUSTERING", "SCORING", "NAMING", "HIERARCHY", "DONE">>

ErrorIsTerminal ==
  \A i \in 1..(Len(trace) - 1) : trace[i] \notin {"ERROR", "DONE"}

C5_EveryRowInOutput ==
  (pc = "DONE" /\ ValidCount > ShortCircuitMax) =>
    \A r \in 1..Len(raw_texts) :
      Cardinality({ i \in 1..Len(table) : table[i].src = r }) = 1

\* C6: a failure of the text-generation service is never fatal: no run ends
\* in ERROR in the naming or the master-category stage.
C6_NamingFailureNotFatal ==
  pc = "ERROR" => err.stage \notin {"NAMING", "HIERARCHY"}

\* C7: a finished run hands its caller the table path, the full statistics
\* object, the hierarchy and the master names, and handle_file sends the
\* result instead of entering an error branch.
C7_UsableResult ==
  pc = "DONE" =>
    /\ Len(result) = 4
    /\ {"total_texts", "n_clusters", "noise_percent", "avg_cluster_size",
        "top_clusters", "quality_metrics"} \subseteq DOMAIN result[2]
    /\ hf \notin {"validation_error", "critical_error"}

\* Kinds of the exceptions that leave the other stages.
OtherStageErrors == {"ValueError", "OSError", "KeyError"}

\* C8: a failure of the density clusterer reaches the caller as an error of
\* a kind no other failure has, nothing is written, and handle_file does
\* not report it like a problem with the input data.
C8_ClusteringFailureDistinct ==
  (pc = "ERROR" /\ err.stage = "CLUSTERING") =>
    /\ err.kind \notin OtherStageErrors
    /\ ~table_written
    /\ result = <<>>
    /\ hf # "validation_error"

\* C9: the run never ends because the embedding model could not be loaded.
C9_EmbeddingFallback ==
  ~(pc = "ERROR" /\ err.stage = "EMBEDDING")

IsPrefix(s, t) == Len(s) <= Len(t) /\ \A i \in 1..Len(s) : s[i] = t[i]

\* C10: a progress callback that raises never fails or diverts the run: no
\* exception of the observer leaves clusterize_texts, and with or without
\* raising callbacks the stages entered are the ones of the stage sequence
\* (or of the short circuit), left only by a failure of the stage itself.
C10_ObserverNeverFails ==
  /\ err.kind # "ObserverError"
  /\ LET stages == IF pc = "ERROR" THEN SubSeq(trace, 1, Len(trace) - 1) ELSE trace
     IN \/ IsPrefix(stages, StagesOfCode)
        \/ stages = <<"LOADING", "NORMALIZING", "DONE">>

\* C10 witness: a callback raised and the run still is done, after the full
\* stage sequence.
C10_Witness == pc = "DONE" /\ observer_raised /\ trace = StagesOfCode

\* C11: the percentages of the progress texts sent to the user during one
\* run of handle_file never decrease, whatever the order in which the
\* handler's updates and the callback's updates are delivered.
C11_MonotoneProgress ==
  \A i \in 1..(Len(sent) - 1) : sent[i] <= sent[i + 1]

\* C12: while clusterize_texts runs for handle_file, handle_file holds a
\* permit of PROCESSING_SEMAPHORE (acquired before the call, released after).
C12_SemaphoreHeld ==
  h_pc = "pipeline" => semaphore < SemaphorePermits

\* C13: while a run of clusterize_texts is in progress the loop can run the
\* handler of another user's update, and when the run finishes none of the
\* progress notifications it emitted is still waiting to be delivered.
C13_OffMainThread ==
  /\ (h_pc = "pipeline" /\ other = "queued") => ENABLED OtherHandled
  /\ (h_pc = "pipeline" /\ emitted = run_length) => loop_tasks = <<>>
\* C14: after merge_similar_clusters no text carries a cluster id that was
\* merged away: no label of the returned array is a key of the returned
\* merge_map.
C14_MergedIdNotReused ==
  merge_result # <<>> =>
    \A i \in 1..Len(merge_result[1]) : merge_result[1][i] \notin DOMAIN merge_result[2]
\* C15: the hyperparameters handed to the reducer and the clusterer are
\* those get_clustering_params returns for the number of texts left after
\* deduplication and the dimensionality of the embedding model.
C15_ParamsFromSelector ==
  params # <<>> => params = get_clustering_params(Len(df), BaselineDim)

\* C16: for a fixed embedding_dim, get_clustering_params never selects a
\* smaller min_cluster_size for a larger corpus: the value for twice the
\* corpus size is at least the selected one, and the value for every smaller
\* corpus size is at most the selected one.
C16_MonotoneInCorpusSize ==
  adjusted_params # <<>> =>
    /\ get_clustering_params(2 * n_texts, embedding_dim).min_cluster_size
         >= adjusted_params.min_cluster_size
    /\ \A n \in CorpusSizes :
         n <= n_texts =>
           get_clustering_params(n, embedding_dim).min_cluster_size
             <= adjusted_params.min_cluster_size

\* C16 witness: a dimension below the baseline, and doubling the corpus
\* size moves to a bucket with a larger selected min_cluster_size.
C16_Witness ==
  /\ adjusted_params # <<>>
  /\ embedding_dim < BaselineDim
  /\ get_clustering_params(2 * n_texts, embedding_dim).min_cluster_size
       > adjusted_params.min_cluster_size

\* clamp(dim / 384, lo / 10, hi / 10) as a fraction.
Clamp(dim, lo, hi) ==
  LET below == dim * 10 < lo * BaselineDim
      above == dim * 10 > hi * BaselineDim
  IN IF below THEN <<lo, 10>> ELSE IF above THEN <<hi, 10>> ELSE <<dim, BaselineDim>>

\* q = floor(a * f) for the fraction f.
IsFloor(q, a, f) == q * f[2] <= a * f[1] /\ a * f[1] < (q + 1) * f[2]

\* C17: min_cluster_size = max(3, floor(base * clamp(dim/384, 0.6, 1.2))),
\* n_components = max(5, floor(base * clamp(dim/384, 0.8, 1.5))), so they are
\* at least 3 and 5, and min_samples and n_neighbors are the base values of
\* the bucket.
C17_DimensionCorrection ==
  adjusted_params # <<>> =>
    LET base == base_params(n_texts)
    IN /\ \E q \in 0..(2 * base.min_cluster_size) :
            /\ IsFloor(q, base.min_cluster_size, Clamp(embedding_dim, 6, 12))
            /\ adjusted_params.min_cluster_size = Max(3, q)
       /\ \E q \in 0..(2 * base.n_components) :
            /\ IsFloor(q, base.n_components, Clamp(embedding_dim, 8, 15))
            /\ adjusted_params.n_components = Max(5, q)
       /\ adjusted_params.min_cluster_size >= 3
       /\ adjusted_params.n_components >= 5
       /\ adjusted_params.min_samples = base.min_samples
       /\ adjusted_params.n_neighbors = base.n_neighbors

\* C17 witness: both minimums apply: the corrected values of the smallest
\* bucket fall below 3 and 5.
C17_Witness ==
  /\ adjusted_params # <<>>
  /\ scaled(base_params(n_texts).min_cluster_size, multiplier(embedding_dim, 6, 12)) < 3
  /\ scaled(base_params(n_texts).n_components, multiplier(embedding_dim, 8, 15)) < 5
  /\ adjusted_params.min_cluster_size = 3
  /\ adjusted_params.n_components = 5
MetricKeys ==
  {"silhouette_score", "davies_bouldin_index", "calinski_harabasz_score", "noise_ratio"}

\* C18: the noise_ratio that ClusteringMetrics.calculate returns is the
\* share of labels equal to -1 (the code reports it in percent, rounded to
\* two places) and is the same for every embedding array given with the
\* same labels, also one on which the shape metrics fail.
C18_NoiseRatioFromLabelsOnly ==
  calc_metrics # <<>> =>
    /\ calc_metrics.noise_ratio =
         (IF Len(calc_labels) > 0
          THEN Percent2(Count(calc_labels, NOISE), Len(calc_labels)) ELSE 0)
    /\ \A e \in EmbeddingKinds :
         calculate(calc_labels, shape_ok_for(e, calc_labels)).noise_ratio
           = calc_metrics.noise_ratio

\* C19: ClusteringMetrics.calculate always returns its dict of four
\* metrics (no exception leaves it), and with fewer than two distinct
\* labels other than noise the three shape metrics are 0.0.
C19_DegenerateMetricsAreZero ==
  calc_metrics # <<>> =>
    /\ DOMAIN calc_metrics = MetricKeys
    /\ Cardinality(Clusters(calc_labels)) < 2 =>
         /\ calc_metrics.silhouette_score = "0.0"
         /\ calc_metrics.davies_bouldin_index = "0.0"
         /\ calc_metrics.calinski_harabasz_score = "0.0"

\* C19 witness: the call was made on labels that are all noise.
C19_Witness ==
  /\ calc_metrics # <<>>
  /\ Len(calc_labels) >= 2
  /\ \A i \in 1..Len(calc_labels) : calc_labels[i] = NOISE
\* C20: the hierarchy returned by create_hierarchy partitions the clusters
\* other than noise and agrees with the master id of every text: each such
\* cluster is in the list of exactly one master category, the noise id is in
\* no list, a noise text has master id -1, and any other text has the master
\* id whose list holds its cluster; on the fallback and the agglomerative path.
C20_HierarchyPartition ==
  hier_result # <<>> =>
    LET hierarchy == hier_result[1]
        master_topics == hier_result[2]
    IN /\ \A c \in Clusters(hier_topics) :
            Cardinality({ m \in DOMAIN hierarchy : c \in Range(hierarchy[m]) }) = 1
       /\ \A m \in DOMAIN hierarchy : NOISE \notin Range(hierarchy[m])
       /\ Len(master_topics) = Len(hier_topics)
       /\ \A i \in 1..Len(hier_topics) :
            IF hier_topics[i] = NOISE
            THEN master_topics[i] = -1
            ELSE /\ master_topics[i] \in DOMAIN hierarchy
                 /\ hier_topics[i] \in Range(hierarchy[master_topics[i]])

\* C20 witness: the agglomerative path was taken on topics with noise, and
\* some master category holds two clusters.
C20_Witness ==
  /\ hier_result # <<>>
  /\ Len(hier_result) = 3
  /\ NOISE \in Range(hier_topics)
  /\ \E m \in DOMAIN hier_result[1] : Len(hier_result[1][m]) >= 2
\* C21: with at most n_master_categories clusters other than noise,
\* create_hierarchy groups nothing: every cluster is the only member of its
\* own master category, and the returned tuple has the same shape as the one
\* of the agglomerative path (three components).
C21_FallbackSameShape ==
  (hier_result # <<>>
     /\ Cardinality(Clusters(hier_topics)) <= n_master_categories) =>
    /\ DOMAIN hier_result[1] = Clusters(hier_topics)
    /\ \A c \in Clusters(hier_topics) : hier_result[1][c] = <<c>>
    /\ Len(hier_result) = 3

\* clamp(n_clusters / 7, 5, 10), the quotient rounded down.
ClampedMasterCount(n_clusters) ==
  IF n_clusters < 5 * 7 THEN 5 ELSE IF n_clusters > 10 * 7 THEN 10 ELSE n_clusters \div 7

\* C22: with more clusters than the threshold, the hierarchy has exactly
\* clamp(n_clusters / 7, 5, 10) master categories.
C22_ClampedMasterCount ==
  (hier_result # <<>>
     /\ Cardinality(Clusters(hier_topics)) > n_master_categories) =>
    Cardinality(DOMAIN hier_result[1])
      = ClampedMasterCount(Cardinality(Clusters(hier_topics)))

\* C23: for every label array the statistics built by calculate_metrics have
\* n_clusters equal to the number of distinct non-noise labels, noise_percent
\* equal to the share of noise labels (in percent, to two decimals), and a
\* top_clusters list with no noise entry, at most 3 entries, pairwise distinct
\* names and sizes in non-increasing order.
C23_Statistics ==
  stats # <<>> =>
    LET top == stats.top_clusters
        n == Len(stats_topics)
        noise == Count(stats_topics, NOISE)
    IN /\ stats.n_clusters = Cardinality(Range(stats_topics) \ {NOISE})
       /\ n = 0 => stats.noise_percent = 0
       /\ n > 0 =>
            LET d == stats.noise_percent * n - 10000 * noise
            IN 2 * d <= n /\ 2 * (0 - d) <= n
       /\ \A i \in 1..Len(top) :
            /\ top[i].id # NOISE
            /\ top[i].id \in Range(stats_topics)
            /\ top[i].size = Count(stats_topics, top[i].id)
       /\ Len(top) <= 3
       /\ \A i, j \in 1..Len(top) : i # j => top[i].name # top[j].name
       /\ \A i \in 1..(Len(top) - 1) : top[i].size >= top[i + 1].size

\* Four clusters of unequal size whose names coincide in pairs: the duplicates
\* are skipped, and the largest cluster, which appeared last, comes first.
C23_Witness ==
  /\ stats # <<>>
  /\ stats.n_clusters >= 4
  /\ Len(stats.top_clusters) = 2
  /\ stats.top_clusters[1].size > stats.top_clusters[2].size
  /\ FirstIndex(stats_topics, stats.top_clusters[1].id)
       > FirstIndex(stats_topics, stats.top_clusters[2].id)

\* C24: cache round trip. A load that finds the entry of a key returns exactly
\* the data passed to the save that returned that key, also when the same user
\* saves the same file name several times in quick succession.
C24_RoundTrip ==
  (cache_op.op = "load" /\ cache_op.found) =>
    \A s \in cache_saves :
      s.key = cache_op.key => cache_op.data.payload = s.data.payload

\* C26: after every save, save has returned the key without raising, the cache
\* holds at most MAX_CACHE_ITEMS entries, none of them older than
\* MAX_CACHE_AGE_SECONDS, and the entry just saved is present.
C26_BoundedAfterSave ==
  (cache_op.op = "save" /\ cache_op.at = cache_now) =>
    /\ ~cache_op.raised
    /\ Cardinality(DOMAIN cache_files) + cache_old <= MAX_CACHE_ITEMS
    /\ \A k \in DOMAIN cache_files :
         cache_now - cache_files[k].mtime <= MAX_CACHE_AGE_SECONDS
    /\ cache_old > 0 => cache_now - OldMtime <= MAX_CACHE_AGE_SECONDS
    /\ cache_op.key \in DOMAIN cache_files

\* C25: per-user sliding window. In every interval shorter than window_seconds
\* is_allowed returns allowed for at most max_requests calls of one user; a
\* denied call records no timestamp and returns remaining 0 with a wait of at
\* least one second; a call of one user leaves every other user's record as it
\* was; and a call is allowed when the oldest request recorded before it is at
\* least window_seconds old.
C25_SlidingWindow ==
  /\ \A u \in RateUsers : \A i \in 1..Len(rate_allowed) :
       Cardinality({ j \in 1..Len(rate_allowed) :
                       /\ rate_allowed[j].user_id = u
                       /\ rate_allowed[i].at <= rate_allowed[j].at
                       /\ rate_allowed[j].at - rate_allowed[i].at
                            < HalfSeconds(window_seconds) })
         <= max_requests
  /\ rate_op.op = "is_allowed" =>
       LET u == rate_op.user_id
           before == rate_op.before[u]
       IN /\ ~rate_op.allowed =>
               /\ Count(requests[u], rate_op.at) = Count(before, rate_op.at)
               /\ Len(requests[u]) <= Len(before)
               /\ rate_op.remaining = 0
               /\ rate_op.wait >= 1
          /\ \A v \in RateUsers \ {u} : requests[v] = rate_op.before[v]
          /\ (before # <<>>
                /\ \E m \in Range(before) :
                     /\ \A ts \in Range(before) : m <= ts
                     /\ rate_op.at - m >= HalfSeconds(window_seconds))
               => rate_op.allowed

\* A user at the limit is denied with a wait of exactly one second, half a
\* second before the oldest request leaves the window, while the other user
\* holds requests of their own.
C25_Witness ==
  /\ rate_op.op = "is_allowed"
  /\ ~rate_op.allowed
  /\ rate_op.wait = 1
  /\ \E v \in RateUsers \ {rate_op.user_id} : requests[v] # <<>>
  /\ Len(rate_allowed) > max_requests

RetriedAfter(helper) ==
  IF helper = "namer" THEN {"429", "timeout"}
  ELSE {"429", "timeout", "5xx", "network"}

\* C27: a call of generate_cluster_name_yandex or _call_yandex_gpt sends at
\* most max_retries requests; a further request is sent only after a 429 or a
\* timeout (in the classifier also after a 5xx or a network error); after any
\* other error status or an invalid response the call has ended at once; and
\* when the last attempt has failed in a retried way the namer has returned
\* None and the classifier has raised RequestException.
C27_BoundedRetries ==
  llm_helper # "" =>
    /\ Len(llm_outcomes) <= llm_max_retries
    /\ \A i \in 1..(Len(llm_outcomes) - 1) : llm_outcomes[i] \in RetriedAfter(llm_helper)
    /\ \A i \in 1..Len(llm_outcomes) :
         llm_outcomes[i] \in {"4xx", "invalid", "malformed"}
           \cup ({"5xx", "network"} \ RetriedAfter(llm_helper))
           => /\ i = Len(llm_outcomes)
              /\ llm_result \notin {"running", "text"}
    /\ llm_result = "running" => Len(llm_outcomes) = llm_attempt
    /\ (llm_result # "running"
          /\ \A i \in 1..Len(llm_outcomes) : llm_outcomes[i] \in RetriedAfter(llm_helper))
         => /\ llm_configured => Len(llm_outcomes) = llm_max_retries
            /\ llm_result = IF llm_helper = "namer" THEN "None" ELSE "RequestException"

\* A helper has used up three attempts: the classifier on a 5xx and a
\* network error, the namer on a 429 and timeouts.
C27_Witness ==
  /\ llm_result \in {"None", "RequestException"}
  /\ Len(llm_outcomes) = 3
  /\ llm_outcomes[3] = "timeout"
  /\ \/ llm_helper = "classifier" /\ llm_outcomes[1] = "5xx" /\ llm_outcomes[2] = "network"
     \/ llm_helper = "namer" /\ llm_outcomes[1] = "429" /\ llm_outcomes[2] = "timeout"

C29_EditRetry ==
  /\ (dialog_last.update = "text" /\ dialog_last.reply = "edited_invalid_try_again")
       => awaiting_edited_categories
  /\ (dialog_prev = "edited_invalid_try_again" /\ dialog_last.update = "text") =>
       /\ dialog_last.reply \in {"edited_invalid_try_again", "categories_updated"}
       /\ validate_categories(parse_categories_from_text(dialog_last.text))
            => categories = parse_categories_from_text(dialog_last.text)

\* C30: on every path by which handle_file is left after the document has been
\* downloaded, the downloaded file has been deleted, and a result file that
\* was produced has been deleted once it was sent or the run failed.
C30_NoTempFileLeak ==
  (fs_pc = "exit" /\ fs_exit # "rejected") =>
    /\ "download" \notin fs_tmp
    /\ "clustered" \notin fs_tmp
    /\ "classified" \notin fs_tmp

====
